---- MODULE Spec2Model ----
(***************************************************************************)
(* Blackbook: the LDAP contact cache (Snapshot), its Refresher, the        *)
(* scheduler integration of the write routes, the visibility merge and     *)
(* the Google-contacts import stream.                                      *)
(*                                                                         *)
(* Strings are TLA+ strings; "" stands for every falsy Python string value *)
(* (None or the empty string); where the code tells them apart (the edit   *)
(* form), "None" is the absent value.  A dn is <<rdn, parent>>: the first  *)
(* RDN and the container it lives in; an attribute is the sequence of its  *)
(* values.  The contact DN template is taken to be                         *)
(* "uid={uid},<LDAP_CONTACTS_DN>", and LDAP_PRIVATE_OU_TEMPLATE to be set. *)
(***************************************************************************)
EXTENDS Integers, Sequences, FiniteSets, Bags, TLC

VARIABLES
    ldap,       \* the directory: a set of entries, at most one per dn
    ldapUp,     \* whether get_ldap_connection() currently succeeds
    cache,      \* the "all_people" entry of the SimpleCache
    jobs,       \* the scheduler's job store
    runs,       \* refresh_ldap_cache executions in flight (a bag)
    nextUuid,   \* serial number of the next uuid.uuid4() value
    nReq,       \* write requests handled so far
    lastReq,    \* what the last handled write request did
    burst,      \* per job kind: the add_job calls since the last dispatch
    hist,       \* what the Refresher stored last, and whether a search succeeded
    imp,        \* the import stream (generate_import_stream) and its working state
    view,       \* the last visibility merge: its two inputs and its result
    flt,        \* the Refresher's filter: the configured classes, a directory, the matches
    app,        \* the application's life: the position in create_app, the scheduler's state
    config,     \* app.config: the settings the routes read
    db,         \* the local database: the rows of the User table
    req,        \* the last request of the access log: who asked, the answer, the calls made
    session,    \* the import keys of the editor's Flask session
    peer        \* a second import stream, served by another worker

vars == <<ldap, ldapUp, cache, jobs, runs, nextUuid, nReq, lastReq, burst, hist, imp, view, flt,
          app, config, db, req, session, peer>>

(***************************************************************************)
(* Bounds of the model.                                                    *)
(***************************************************************************)
MaxReq == 2         \* write requests per behaviour
MaxRunning == 2     \* Refresher executions in flight at once
MaxRecords == 2     \* records of an import source
MaxList == 2        \* records of each input of the visibility merge
MaxClasses == 2     \* classes named by LDAP_PERSON_OBJECT_CLASS
MaxGated == 1       \* requests let through by a decorator, where every route is open

(***************************************************************************)
(* Program constants.                                                      *)
(***************************************************************************)
CACHE_DEFAULT_TIMEOUT == 300
CACHE_REFRESH_INTERVAL == 300

Users == {1, 2}
Editors == {1}
ContactsDn == <<"contacts", 0>>
PrivateOu(u) == <<"private", u>>
\* "e1", "e2" name entries that exist before the application starts; the
\* others are the values uuid.uuid4() returns, in the order it returns them.
UuidName == <<"e1", "e2", "u1", "u2", "u3", "u4", "u5", "u6", "u7", "u8">>
Uuid(n) == UuidName[n + 2]
OuList == <<ContactsDn, PrivateOu(1), PrivateOu(2)>>
Names == {"a", "b"}

Idx(seq, x) == CHOOSE i \in 1..Len(seq) : seq[i] = x
DnRank(dn) == Idx(UuidName, dn[1][2]) * 10 + Idx(OuList, dn[2])

RECURSIVE ServerOrder(_)
ServerOrder(S) ==
    IF S = {} THEN << >>
    ELSE LET e == CHOOSE x \in S : \A y \in S : DnRank(x.dn) <= DnRank(y.dn)
         IN <<e>> \o ServerOrder(S \ {e})

(***************************************************************************)
(* ldap_utils: every operation opens its own connection and fails soft.    *)
(***************************************************************************)
\* A search of the whole subtree: the private subtrees lie below the base.
search_ldap_subtree(dir, up, search_base) ==
    IF ~up THEN << >>
    ELSE ServerOrder({e \in dir : search_base = ContactsDn \/ e.dn[2] = search_base})

search_ldap(dir, up, search_base) ==
    IF ~up THEN << >>
    ELSE ServerOrder({e \in dir : e.dn[2] = search_base})

get_entry_by_dn(dir, up, dn) ==
    IF ~up THEN {} ELSE {e \in dir : e.dn = dn}

add_ldap_entry(dir, up, dn, attributes) ==
    IF ~up \/ (\E e \in dir : e.dn = dn)
    THEN [ok |-> FALSE, ldap |-> dir]
    ELSE [ok |-> TRUE,
          ldap |-> dir \cup {[dn |-> dn, cn |-> attributes.cn, mail |-> attributes.mail,
                               owner |-> attributes.owner]}]

ApplyChange(old, change) ==
    IF change[1] = "REPLACE" THEN <<change[2]>>
    ELSE IF change[1] = "DELETE" THEN << >>
    ELSE old

modify_ldap_entry(dir, up, dn, changes) ==
    IF ~up \/ ~(\E e \in dir : e.dn = dn)
    THEN [ok |-> FALSE, ldap |-> dir]
    ELSE [ok |-> TRUE,
          ldap |-> {IF e.dn = dn
                    THEN [e EXCEPT !.cn = ApplyChange(e.cn, changes.cn),
                                   !.mail = ApplyChange(e.mail, changes.mail)]
                    ELSE e : e \in dir}]

\* The entries the search (manager=<dn>) below LDAP_CONTACTS_DN returns.  An
\* entry has a manager field only where the attribute was ever set.
Subordinates(dir, dn) ==
    {e \in dir : /\ e.dn[2] \in {OuList[k] : k \in 1..Len(OuList)}
                 /\ "manager" \in DOMAIN e
                 /\ e.manager = <<dn>>}

\* The manager attribute of every subordinate is cleared first, then the
\* contact is deleted; a delete the server refuses leaves them cleared.
delete_ldap_contact(dir, up, dn) ==
    LET cleared == {IF e \in Subordinates(dir, dn) THEN [e EXCEPT !.manager = << >>] ELSE e :
                        e \in dir}
    IN IF ~up THEN [ok |-> FALSE, ldap |-> dir]
       ELSE IF ~(\E e \in cleared : e.dn = dn) THEN [ok |-> FALSE, ldap |-> cleared]
       ELSE [ok |-> TRUE, ldap |-> {e \in cleared : e.dn # dn}]

move_ldap_entry(dir, up, old_dn, new_parent_dn) ==
    LET new_dn == <<old_dn[1], new_parent_dn>>
    IN IF ~up \/ ~(\E e \in dir : e.dn = old_dn) \/ (\E e \in dir : e.dn = new_dn)
       THEN [ok |-> FALSE, ldap |-> dir]
       ELSE [ok |-> TRUE,
             ldap |-> {IF e.dn = old_dn THEN [e EXCEPT !.dn = new_dn] ELSE e : e \in dir}]

(***************************************************************************)
(* The SimpleCache entry "all_people".                                     *)
(***************************************************************************)
Missing == [present |-> FALSE, val |-> << >>, fires |-> 0]

CacheSet(value) == [present |-> TRUE, val |-> value, fires |-> 0]

CacheGet == IF cache.present THEN cache.val ELSE << >>

\* Interval firings an entry outlives: it is set between two firings and
\* times out CACHE_DEFAULT_TIMEOUT seconds later.
FiresBeforeExpiry == CACHE_DEFAULT_TIMEOUT \div CACHE_REFRESH_INTERVAL

\* The startup entry is set before the interval job is registered: it is
\* older than an entry set right after a firing by one interval.
StartupAge == 1


(***************************************************************************)
(* The visibility merge, _get_visible_contacts.  A Python dict keeps its   *)
(* keys in the order of their first insertion and the value written last.  *)
(***************************************************************************)
Tagged(contact) ==
    [f \in DOMAIN contact \cup {"is_private"} |->
        IF f = "is_private" THEN TRUE ELSE contact[f]]

RECURSIVE DictValues(_, _)
DictValues(list, acc) ==
    IF list = << >> THEN acc
    ELSE LET p == Head(list)
             at == {k \in 1..Len(acc) : acc[k].dn = p.dn}
         IN DictValues(Tail(list),
                       IF at = {} THEN Append(acc, p)
                       ELSE [k \in 1..Len(acc) |-> IF k \in at THEN p ELSE acc[k]])

\* The merge with the private records inserted last.
merge_visible_private_wins(public_contacts, private_contacts) ==
    LET tagged == [k \in 1..Len(private_contacts) |-> Tagged(private_contacts[k])]
    IN DictValues(public_contacts \o tagged, << >>)

merge_visible(public_contacts, private_contacts) ==
    LET tagged == [k \in 1..Len(private_contacts) |-> Tagged(private_contacts[k])]
    IN DictValues(tagged \o public_contacts, << >>)

\* A merge that gives up when the directory does not answer.
get_visible_contacts_strict(u) ==
    IF ~ldapUp THEN << >>
    ELSE merge_visible(CacheGet, search_ldap(ldap, ldapUp, PrivateOu(u)))

\* Lines 143-150: the private search, made when the template is set.
private_contacts(u) ==
    LET private_ou_template == config.LDAP_PRIVATE_OU_TEMPLATE
    IN IF private_ou_template # ""
       THEN [searched |-> TRUE, list |-> search_ldap(ldap, ldapUp, PrivateOu(u))]
       ELSE [searched |-> FALSE, list |-> << >>]

get_visible_contacts(u) ==
    merge_visible(CacheGet, private_contacts(u).list)

NoView == [done |-> FALSE, public |-> << >>, private |-> << >>, out |-> << >>,
           failed |-> FALSE, user |-> 0, searched |-> FALSE]

(***************************************************************************)
(* The person pages.  An identifier in a URL is the urlsafe base64 text of *)
(* a dn, as the b64encode filter writes it, or any other text.             *)
(***************************************************************************)
b64encode(dn) == [enc |-> "b64", dn |-> dn]
Garbage == [enc |-> "none", dn |-> <<<<"uid", "e1">>, ContactsDn>>]

b64decode_with_padding(s_) ==
    IF s_.enc = "b64" THEN [ok |-> TRUE, dn |-> s_.dn] ELSE [ok |-> FALSE, dn |-> s_.dn]

Response(status, ops, out) == [status |-> status, ops |-> ops, out |-> out]

person_detail(u, b64_dn) ==
    LET d == b64decode_with_padding(b64_dn)
        person == get_entry_by_dn(ldap, ldapUp, d.dn)
    IN IF ~d.ok THEN Response(404, << >>, << >>)
       ELSE IF person = {} THEN Response(404, <<"get_entry_by_dn">>, << >>)
       ELSE Response(200, <<"get_entry_by_dn">>, ServerOrder(person))

person_map(u, b64_dn) ==
    LET d == b64decode_with_padding(b64_dn)
        person == get_entry_by_dn(ldap, ldapUp, d.dn)
    IN IF ~d.ok THEN Response(404, << >>, << >>)
       ELSE IF person = {} THEN Response(404, <<"get_entry_by_dn">>, << >>)
       ELSE Response(200, <<"get_entry_by_dn">>, ServerOrder(person))

person_vcard(u, b64_dn) ==
    LET d == b64decode_with_padding(b64_dn)
        person == get_entry_by_dn(ldap, ldapUp, d.dn)
    IN IF ~d.ok THEN Response(404, << >>, << >>)
       ELSE IF person = {} THEN Response(404, <<"get_entry_by_dn">>, << >>)
       ELSE Response(200, <<"get_entry_by_dn">>, ServerOrder(person))

(***************************************************************************)
(* The scheduler (APScheduler BackgroundScheduler).  A job without trigger *)
(* is a date job due now; it leaves the store when it is dispatched.       *)
(***************************************************************************)
IntervalId == <<"interval", 0>>
StableKinds == {"manual_refresh_add", "manual_refresh_edit", "manual_refresh_delete",
                "manual_refresh_import"}
Kinds == StableKinds \cup {"manual_refresh_move"}

\* A store that keeps the earlier job of the same id next to the new one.
add_job_keeps_existing(store, id, tok, replace_existing) ==
    store \cup {[id |-> id, tok |-> tok]}

\* A store in which replace_existing replaces whatever job is stored.
add_job_one_slot(store, id, tok, replace_existing) ==
    IF replace_existing
    THEN {[id |-> id, tok |-> tok]}
    ELSE store \cup {[id |-> id, tok |-> tok]}

add_job(store, id, tok, replace_existing) ==
    IF \E j \in store : j.id = id
    THEN IF replace_existing
         THEN {j \in store : j.id # id} \cup {[id |-> id, tok |-> tok]}
         ELSE store
    ELSE store \cup {[id |-> id, tok |-> tok]}

Call(kind, n, replace_existing) ==
    [id |-> <<kind, n>>, replace_existing |-> replace_existing]


\* The calls made with one job kind since a job of that kind last started,
\* and the jobs of these calls that were started.  A job carries, as its
\* arguments, the number its call has among them.
NoBurst == [calls |-> 0, execs |-> 0, execTok |-> 0]

CallNo(b, kind) == IF b[kind].execs > 0 THEN 1 ELSE b[kind].calls + 1

RECURSIVE NoteCalls(_, _)
NoteCalls(b, calls) ==
    IF calls = << >> THEN b
    ELSE LET k == Head(calls).id[1]
         IN NoteCalls([b EXCEPT ![k] = [calls |-> CallNo(b, k), execs |-> 0, execTok |-> 0]],
                      Tail(calls))

RECURSIVE ApplyCalls(_, _, _)
ApplyCalls(store, b, calls) ==
    IF calls = << >> THEN store
    ELSE LET c == Head(calls)
         IN ApplyCalls(add_job(store, c.id, CallNo(b, c.id[1]), c.replace_existing),
                       NoteCalls(b, <<c>>), Tail(calls))

(***************************************************************************)
(* The write routes.  Each returns what the request did: whether the       *)
(* directory mutation succeeded, the directory after it, the add_job calls *)
(* it made, the number of uuid4 values it drew and the ldap_utils          *)
(* functions it called.                                                    *)
(***************************************************************************)
Outcome(ok, dir, calls, uuids, ops) ==
    [ok |-> ok, ldap |-> dir, calls |-> calls, uuids |-> uuids, ops |-> ops]

\* A conversion that keeps an attribute whose value is empty.
AsAttrKeepEmpty(s) == <<s>>

\* An attribute is passed when its value is non-empty (lines 508-510, 829).
AsAttr(s) == IF s = "" THEN << >> ELSE <<s>>

\* A handler that tries the directory before it looks at the form.
add_person_unchecked(u, form) ==
    LET new_dn == <<<<"uid", Uuid(nextUuid)>>, ContactsDn>>
        r == add_ldap_entry(ldap, ldapUp, new_dn,
                            [cn |-> AsAttr(form.cn), mail |-> AsAttr(form.mail), owner |-> u])
    IN IF form.cn = "" \/ config.LDAP_CONTACT_DN_TEMPLATE = ""
       THEN Outcome(FALSE, ldap, << >>, 1, <<"add_ldap_entry">>)
       ELSE Outcome(r.ok, r.ldap,
                    IF r.ok THEN <<Call("manual_refresh_add", 0, TRUE)>> ELSE << >>, 1,
                    <<"add_ldap_entry">>)

add_person(u, form) ==
    LET dn_template == config.LDAP_CONTACT_DN_TEMPLATE
        new_dn == <<<<"uid", Uuid(nextUuid)>>, ContactsDn>>
        r == add_ldap_entry(ldap, ldapUp, new_dn,
                            [cn |-> AsAttr(form.cn), mail |-> AsAttr(form.mail), owner |-> u])
    IN IF form.cn = "" THEN Outcome(FALSE, ldap, << >>, 0, << >>)
       ELSE IF dn_template = "" THEN Outcome(FALSE, ldap, << >>, 0, << >>)
       ELSE Outcome(r.ok, r.ldap,
                    IF r.ok THEN <<Call("manual_refresh_add", 0, TRUE)>> ELSE << >>, 1,
                    <<"add_ldap_entry">>)

Keep == <<"KEEP", "">>

AttrChange(form_value, attr) ==
    LET current_value == IF attr = << >> THEN "None" ELSE attr[1]
    IN IF form_value = "None" THEN Keep
       ELSE IF form_value # "" /\ form_value # current_value THEN <<"REPLACE", form_value>>
       ELSE IF form_value = "" /\ attr # << >> THEN <<"DELETE", "">>
       ELSE Keep

build_ldap_changes(form_data, current_person) ==
    [cn |-> AttrChange(form_data.cn, current_person.cn),
     mail |-> AttrChange(form_data.mail, current_person.mail)]

edit_person(u, dn, form) ==
    LET found == get_entry_by_dn(ldap, ldapUp, dn)
    IN IF found = {} THEN Outcome(FALSE, ldap, << >>, 0, <<"get_entry_by_dn">>)
       ELSE LET changes == build_ldap_changes(form, CHOOSE e \in found : TRUE)
                r == modify_ldap_entry(ldap, ldapUp, dn, changes)
            IN IF changes.cn = Keep /\ changes.mail = Keep
               THEN Outcome(FALSE, ldap, << >>, 0, <<"get_entry_by_dn">>)
               ELSE Outcome(r.ok, r.ldap,
                            IF r.ok THEN <<Call("manual_refresh_edit", 0, TRUE)>> ELSE << >>, 0,
                            <<"get_entry_by_dn", "modify_ldap_entry">>)

\* A delete that schedules the refresh whatever delete_ldap_contact returns.
delete_person_always_schedules(u, dn) ==
    LET r == delete_ldap_contact(ldap, ldapUp, dn)
    IN Outcome(r.ok, r.ldap, <<Call("manual_refresh_delete", 0, TRUE)>>, 0,
               <<"delete_ldap_contact">>)

delete_person(u, dn) ==
    LET r == delete_ldap_contact(ldap, ldapUp, dn)
    IN Outcome(r.ok, r.ldap,
               IF r.ok THEN <<Call("manual_refresh_delete", 0, TRUE)>> ELSE << >>, 0,
               <<"delete_ldap_contact">>)

toggle_contact_privacy(u, old_dn) ==
    LET private_ou == PrivateOu(u)
        new_parent_dn == IF old_dn[2] = private_ou THEN ContactsDn ELSE private_ou
        r == move_ldap_entry(ldap, ldapUp, old_dn, new_parent_dn)
    IN Outcome(r.ok, r.ldap,
               IF r.ok THEN <<Call("manual_refresh_move", nextUuid, FALSE)>> ELSE << >>,
               IF r.ok THEN 1 ELSE 0,
               IF new_parent_dn = private_ou
               THEN <<"ensure_ou_exists", "move_ldap_entry">> ELSE <<"move_ldap_entry">>)


(***************************************************************************)
(* The import stream, generate_import_stream of routes.py.  A source       *)
(* record is [cn, mail]: the displayName of its first name and the value   *)
(* of its first e-mail address.  The generator is suspended at each yield; *)
(* the preload search, each record and the code after the loop are steps.  *)
(***************************************************************************)
\* A comparison key that keeps the case.
LowerIdentity(str) == str

Lower(str) ==
    CASE str = "Al" -> "al"
      [] str = "AL" -> "al"
      [] str = "Bo" -> "bo"
      [] str = "X@Y" -> "x@y"
      [] OTHER -> str

Idle == [pc |-> "idle", user_id |-> 0, search_base |-> ContactsDn, connections |-> << >>,
         i |-> 0, existing_emails |-> {}, existing_names |-> {},
         imported_count |-> 0, skipped_count |-> 0, events |-> << >>,
         nsched |-> 0, schedAt |-> 0, token |-> FALSE, failing |-> FALSE,
         fetched |-> FALSE, searched |-> FALSE, preDir |-> {}, preIndex |-> << >>,
         addCalls |-> {}, written |-> {}, privacy |-> "public", ops |-> << >>,
         gone |-> FALSE, received |-> 0]

\* A call of an ldap_utils function by the stream: the function, the dn it
\* is about and, for an add, the attributes passed.
NoAttributes == [cn |-> << >>, mail |-> << >>, owner |-> 0]
LdapCall(fn, dn, attributes) == [fn |-> fn, dn |-> dn, attributes |-> attributes]

\* Lines 761-772: ensure_ou_exists for a private import, then the preload.
StartCalls(privacy, search_base) ==
    (IF privacy = "private"
     THEN <<LdapCall("ensure_ou_exists", search_base, NoAttributes)>> ELSE << >>)
        \o <<LdapCall("search_ldap", search_base, NoAttributes)>>

\* An event numbered by the loop index, from 0.
EventZeroBased(status, current, total, message, name) ==
    [status |-> status, current |-> current - 1, total |-> total, message |-> message,
     name |-> name, added |-> 0, skipped |-> 0]

Event(status, current, total, message, name) ==
    [status |-> status, current |-> current, total |-> total, message |-> message,
     name |-> name, added |-> 0, skipped |-> 0]

Complete(message, added, skipped) ==
    [status |-> "complete", current |-> 0, total |-> 0, message |-> message,
     name |-> "", added |-> added, skipped |-> skipped]

\* A paging loop that swallows the exception and keeps the pages.
fetch_connections_partial(pages, failing) ==
    [ok |-> TRUE, connections |-> pages]

\* requests.get of every page: the records of all pages, or a RequestException.
fetch_connections(pages, failing) ==
    IF failing THEN [ok |-> FALSE, connections |-> << >>]
    ELSE [ok |-> TRUE, connections |-> pages]

FirstLower(existing, attr) ==
    {Lower(existing[k][attr][1]) : k \in {n \in 1..Len(existing) : existing[n][attr] # << >>}}

\* A start without the token check.
import_start_no_token_check(token, user_id, privacy, pages, failing) ==
    LET f == fetch_connections(pages, failing)
        search_base == IF privacy = "private" THEN PrivateOu(user_id) ELSE ContactsDn
        existing_contacts == search_ldap(ldap, ldapUp, search_base)
    IN IF ~f.ok
       THEN [Idle EXCEPT !.pc = "done", !.user_id = user_id, !.token = token,
                         !.failing = failing, !.fetched = TRUE,
                         !.events = <<Event("error", 0, 0, "RequestException", "")>>]
       ELSE IF Len(f.connections) = 0
       THEN [Idle EXCEPT !.pc = "done", !.user_id = user_id, !.token = token,
                         !.failing = failing, !.fetched = TRUE,
                         !.events = <<Complete("No contacts found to import.", 0, 0)>>]
       ELSE [Idle EXCEPT !.pc = "loop", !.user_id = user_id, !.token = token,
                         !.failing = failing, !.fetched = TRUE,
                         !.searched = TRUE,
                         !.search_base = search_base,
                         !.privacy = privacy,
                         !.ops = StartCalls(privacy, search_base),
                         !.connections = f.connections,
                         !.existing_emails = FirstLower(existing_contacts, "mail"),
                         !.existing_names = FirstLower(existing_contacts, "cn"),
                         !.preDir = {e \in ldap : e.dn[2] = search_base},
                         !.preIndex = existing_contacts]

\* Lines 720-772: token check, paging, destination subtree, preload.
import_start(token, user_id, privacy, pages, failing) ==
    LET f == fetch_connections(pages, failing)
        search_base == IF privacy = "private" THEN PrivateOu(user_id) ELSE ContactsDn
        existing_contacts == search_ldap(ldap, ldapUp, search_base)
    IN IF ~token
       THEN [Idle EXCEPT !.pc = "done", !.user_id = user_id, !.failing = failing,
                         !.events = <<Event("error", 0, 0, "No token found in session.", "")>>]
       ELSE IF ~f.ok
       THEN [Idle EXCEPT !.pc = "done", !.user_id = user_id, !.token = TRUE,
                         !.failing = failing, !.fetched = TRUE,
                         !.events = <<Event("error", 0, 0, "RequestException", "")>>]
       ELSE IF Len(f.connections) = 0
       THEN [Idle EXCEPT !.pc = "done", !.user_id = user_id, !.token = TRUE,
                         !.failing = failing, !.fetched = TRUE,
                         !.events = <<Complete("No contacts found to import.", 0, 0)>>]
       ELSE [Idle EXCEPT !.pc = "loop", !.user_id = user_id, !.token = TRUE,
                         !.failing = failing, !.fetched = TRUE,
                         !.searched = TRUE,
                         !.search_base = search_base,
                         !.privacy = privacy,
                         !.ops = StartCalls(privacy, search_base),
                         !.connections = f.connections,
                         !.existing_emails = FirstLower(existing_contacts, "mail"),
                         !.existing_names = FirstLower(existing_contacts, "cn"),
                         !.preDir = {e \in ldap : e.dn[2] = search_base},
                         !.preIndex = existing_contacts]

\* A duplicate test on the e-mail alone.
is_duplicate_email_only(email, name, existing_emails, existing_names) ==
    email # "" /\ email \in existing_emails

is_duplicate(email, name, existing_emails, existing_names) ==
    (email # "" /\ email \in existing_emails) \/ (name # "" /\ name \in existing_names)

\* A pass that counts a failed add as skipped and remembers its keys.
import_record_remembers_failed(st, dir, up, uuid) ==
    LET person == st.connections[st.i + 1]
        total_contacts == Len(st.connections)
        email == Lower(person.mail)
        name == Lower(person.cn)
        new_dn == <<<<"uid", uuid>>, st.search_base>>
        attributes == [cn |-> AsAttr(person.cn), mail |-> AsAttr(person.mail),
                       owner |-> st.user_id]
        r == add_ldap_entry(dir, up, new_dn, attributes)
        next == [st EXCEPT !.i = @ + 1]
    IN IF person.cn = ""
       THEN [imp |-> [next EXCEPT !.skipped_count = @ + 1,
                                  !.events = Append(@, Event("progress", st.i + 1, total_contacts,
                                                             "Skipping contact with no name.", ""))],
             ldap |-> dir, uuids |-> 0]
       ELSE IF is_duplicate(email, name, st.existing_emails, st.existing_names)
       THEN [imp |-> [next EXCEPT !.skipped_count = @ + 1,
                                  !.events = Append(@, Event("progress", st.i + 1, total_contacts,
                                                             "Skipping duplicate", name))],
             ldap |-> dir, uuids |-> 0]
       ELSE IF r.ok
       THEN [imp |-> [next EXCEPT !.imported_count = @ + 1,
                                  !.existing_emails = IF email # "" THEN @ \cup {email} ELSE @,
                                  !.existing_names = IF name # "" THEN @ \cup {name} ELSE @,
                                  !.addCalls = @ \cup {st.i + 1},
                                  !.ops = Append(@, LdapCall("add_ldap_entry", new_dn, attributes)),
                                  !.written = @ \cup {new_dn},
                                  !.events = Append(@, Event("progress", st.i + 1, total_contacts,
                                                             "Successfully imported", name))],
             ldap |-> r.ldap, uuids |-> 1]
       ELSE [imp |-> [next EXCEPT !.skipped_count = @ + 1,
                                  !.existing_emails = IF email # "" THEN @ \cup {email} ELSE @,
                                  !.existing_names = IF name # "" THEN @ \cup {name} ELSE @,
                                  !.addCalls = @ \cup {st.i + 1},
                                  !.ops = Append(@, LdapCall("add_ldap_entry", new_dn, attributes)),
                                  !.events = Append(@, Event("progress", st.i + 1, total_contacts,
                                                             "Failed to import", name))],
             ldap |-> dir, uuids |-> 1]

\* Lines 774-840: one pass of the loop, up to its yield.
import_record(st, dir, up, uuid) ==
    LET person == st.connections[st.i + 1]
        total_contacts == Len(st.connections)
        email == Lower(person.mail)
        name == Lower(person.cn)
        new_dn == <<<<"uid", uuid>>, st.search_base>>
        attributes == [cn |-> AsAttr(person.cn), mail |-> AsAttr(person.mail),
                       owner |-> st.user_id]
        r == add_ldap_entry(dir, up, new_dn, attributes)
        next == [st EXCEPT !.i = @ + 1]
    IN IF person.cn = ""
       THEN [imp |-> [next EXCEPT !.skipped_count = @ + 1,
                                  !.events = Append(@, Event("progress", st.i + 1, total_contacts,
                                                             "Skipping contact with no name.", ""))],
             ldap |-> dir, uuids |-> 0]
       ELSE IF is_duplicate(email, name, st.existing_emails, st.existing_names)
       THEN [imp |-> [next EXCEPT !.skipped_count = @ + 1,
                                  !.events = Append(@, Event("progress", st.i + 1, total_contacts,
                                                             "Skipping duplicate", name))],
             ldap |-> dir, uuids |-> 0]
       ELSE IF r.ok
       THEN [imp |-> [next EXCEPT !.imported_count = @ + 1,
                                  !.existing_emails = IF email # "" THEN @ \cup {email} ELSE @,
                                  !.existing_names = IF name # "" THEN @ \cup {name} ELSE @,
                                  !.addCalls = @ \cup {st.i + 1},
                                  !.ops = Append(@, LdapCall("add_ldap_entry", new_dn, attributes)),
                                  !.written = @ \cup {new_dn},
                                  !.events = Append(@, Event("progress", st.i + 1, total_contacts,
                                                             "Successfully imported", name))],
             ldap |-> r.ldap, uuids |-> 1]
       ELSE [imp |-> [next EXCEPT !.addCalls = @ \cup {st.i + 1},
                                  !.ops = Append(@, LdapCall("add_ldap_entry", new_dn, attributes)),
                                  !.events = Append(@, Event("progress", st.i + 1, total_contacts,
                                                             "Failed to import", name))],
             ldap |-> dir, uuids |-> 1]

\* Line 851: the f-string of the final message.
final_message(imported_count, skipped_count) ==
    "Import complete. Added " \o ToString(imported_count) \o " new contacts and skipped "
        \o ToString(skipped_count) \o " duplicates."

\* A finish that schedules the refresh whatever imported_count is.
import_finish_always(st) ==
    [imp |-> [st EXCEPT !.pc = "done",
                        !.nsched = @ + 1,
                        !.schedAt = Len(st.events),
                        !.events = Append(@, Complete(final_message(st.imported_count, st.skipped_count),
                                                      st.imported_count, st.skipped_count))],
     calls |-> <<Call("manual_refresh_import", 0, TRUE)>>]

\* Lines 842-853: the post-import refresh and the final event.
import_finish(st) ==
    [imp |-> [st EXCEPT !.pc = "done",
                        !.nsched = IF st.imported_count > 0 THEN @ + 1 ELSE @,
                        !.schedAt = IF st.imported_count > 0 THEN Len(st.events) ELSE @,
                        !.events = Append(@, Complete(final_message(st.imported_count, st.skipped_count),
                                                      st.imported_count, st.skipped_count))],
     calls |-> IF st.imported_count > 0
               THEN <<Call("manual_refresh_import", 0, TRUE)>> ELSE << >>]

(***************************************************************************)
(* The Refresher's search filter, jobs.py 31-35: one (objectClass=c) item  *)
(* per configured class, wrapped in (&...) when there are several.  A      *)
(* filter is <<operator, items>>; the directory evaluates it on an entry's *)
(* objectClass values.                                                     *)
(***************************************************************************)
NoFilter == [done |-> FALSE, person_classes |-> << >>, dir |-> {}, out |-> {}]

search_filter(person_classes) ==
    IF Len(person_classes) > 1 THEN <<"&", person_classes>> ELSE <<"", person_classes>>

FilterMatches(filter, entry) ==
    IF filter[1] = "|"
    THEN \E k \in 1..Len(filter[2]) : filter[2][k] \in entry.objectClass
    ELSE \A k \in 1..Len(filter[2]) : filter[2][k] \in entry.objectClass

(***************************************************************************)
(* The application's life, its settings and its users.  create_app runs    *)
(* the Refresher, registers the interval job and starts the scheduler;     *)
(* requests are served once it has returned.  The settings are those of    *)
(* config.py, with LDAP_PRIVATE_OU_TEMPLATE as a deployment sets it.  A    *)
(* row of the User table is [id, username, email, auth_source, is_admin,   *)
(* is_editor]; user 1 is the primary administrator.                        *)
(***************************************************************************)
Serving == [pc |-> "serving", started |-> TRUE, people_list |-> << >>, found |-> FALSE]

DefaultConfig ==
    [READONLY |-> FALSE,
     LDAP_CONTACT_DN_TEMPLATE |-> "uid={uid}",
     LDAP_PRIVATE_OU_TEMPLATE |-> "ou=user_{user_id}",
     ENABLE_PRIVATE_CONTACTS |-> TRUE,
     LDAP_USER_DN_TEMPLATE |-> "uid={username}"]

User(id, username, email, auth_source, is_admin, is_editor) ==
    [id |-> id, username |-> username, email |-> email, auth_source |-> auth_source,
     is_admin |-> is_admin, is_editor |-> is_editor]

DefaultDb ==
    {User(1, "admin", "a@x", "local", TRUE, TRUE), User(2, "bob", "b@x", "local", FALSE, FALSE)}

\* A request as the access log has it: the route, the user, the status of
\* the answer, the ldap_utils functions called and whether the last of them
\* succeeded, the records returned, the refresh jobs scheduled, and of the
\* input whether the identifier was decodable and the cn of the form.
NoRequest ==
    [route |-> "none", user |-> 0, status |-> 0, ops |-> << >>, ok |-> FALSE, out |-> << >>,
     nsched |-> 0, decodable |-> TRUE, cn |-> "None"]

\* The session before an import is authorized; uses counts the import_stream
\* requests since the last authorization callback.
NoSession == [google_import_token |-> FALSE, import_privacy |-> "absent", uses |-> 0]

(***************************************************************************)
(* The state after create_app(): the Refresher has run once, synchronously,*)
(* the interval job is registered and the scheduler is started.            *)
(***************************************************************************)
Entry(uid, ou, cn, mail, owner) ==
    [dn |-> <<<<"uid", uid>>, ou>>, cn |-> cn, mail |-> mail, owner |-> owner]

InitDirs == { {}, {Entry("e1", ContactsDn, <<"a">>, << >>, 1)} }

NoReq == [route |-> "none", ok |-> FALSE, nsched |-> 0]

InitApp(dir, up) ==
    /\ ldap = dir
    /\ ldapUp = up
    /\ cache = [CacheSet(search_ldap(dir, up, ContactsDn)) EXCEPT !.fires = StartupAge]
    /\ jobs = {[id |-> IntervalId, tok |-> 0]}
    /\ runs = EmptyBag
    /\ nextUuid = 1
    /\ nReq = 0
    /\ lastReq = NoReq
    /\ burst = [k \in Kinds |-> NoBurst]
    /\ hist = [stored |-> search_ldap(dir, up, ContactsDn), storedOk |-> up, everOk |-> up]
    /\ imp = Idle
    /\ app = Serving
    /\ req = NoRequest
    /\ session = NoSession
    /\ peer = Idle

Defaults == config = DefaultConfig /\ db = DefaultDb

Init ==
    /\ view = NoView
    /\ flt = NoFilter
    /\ Defaults
    /\ \E dir \in InitDirs, up \in BOOLEAN : InitApp(dir, up)

(***************************************************************************)
(* A write request: the route's outcome applied to the state.              *)
(***************************************************************************)
\* A request that also patches the cached list after a successful write.
HandleWriteThrough(route, out) ==
    /\ app.pc = "serving"
    /\ nReq < MaxReq
    /\ nReq' = nReq + 1
    /\ ldap' = out.ldap
    /\ jobs' = ApplyCalls(jobs, burst, out.calls)
    /\ burst' = NoteCalls(burst, out.calls)
    /\ nextUuid' = nextUuid + out.uuids
    /\ lastReq' = [route |-> route, ok |-> out.ok, nsched |-> Len(out.calls)]
    /\ cache' = IF out.ok THEN [cache EXCEPT !.val = search_ldap(out.ldap, TRUE, ContactsDn)]
                ELSE cache
    /\ UNCHANGED <<ldapUp, runs, hist, imp, view, flt,
                 app, config, db, req, session, peer>>

Handle(route, out) ==
    /\ app.pc = "serving"
    /\ nReq < MaxReq
    /\ nReq' = nReq + 1
    /\ ldap' = out.ldap
    /\ jobs' = ApplyCalls(jobs, burst, out.calls)
    /\ burst' = NoteCalls(burst, out.calls)
    /\ nextUuid' = nextUuid + out.uuids
    /\ lastReq' = [route |-> route, ok |-> out.ok, nsched |-> Len(out.calls)]
    /\ UNCHANGED <<ldapUp, cache, runs, hist, imp, view, flt,
                 app, config, db, req, session, peer>>

AllDns == {<<<<"uid", UuidName[i]>>, ou>> : i \in 1..(MaxReq + 2), ou \in {OuList[k] : k \in 1..Len(OuList)}}

AddForms == [cn : {"", "a"}, mail : {""}]
EditForms == [cn : {"None", "", "a"}, mail : {"None"}]

AddPerson == \E u \in Editors, form \in AddForms : Handle("add_person", add_person(u, form))

EditPerson ==
    \E u \in Editors, dn \in AllDns, form \in EditForms :
        Handle("edit_person", edit_person(u, dn, form))

DeletePerson == \E u \in Editors, dn \in AllDns : Handle("delete_person", delete_person(u, dn))

ToggleContactPrivacy ==
    \E u \in Editors, dn \in AllDns :
        Handle("toggle_contact_privacy", toggle_contact_privacy(u, dn))

(***************************************************************************)
(* The scheduler thread and its worker threads.                            *)
(***************************************************************************)
NewRun(id) == [id |-> id, pc |-> "search", people_list |-> << >>, found |-> FALSE]

Running == BagToSet(runs)
Start(r) == runs (+) SetToBag({r})
Finish(r) == runs (-) SetToBag({r})

\* A due date job is taken from the store and handed to a worker.
SchedulerRunJob ==
    \E j \in jobs :
        /\ app.started
        /\ j.id # IntervalId
        /\ BagCardinality(runs) < MaxRunning
        /\ jobs' = jobs \ {j}
        /\ runs' = Start(NewRun(j.id))
        /\ burst' = [burst EXCEPT ![j.id[1]].execs = @ + 1, ![j.id[1]].execTok = j.tok]
        /\ UNCHANGED <<ldap, ldapUp, cache, nextUuid, nReq, lastReq, hist, imp, view, flt,
                 app, config, db, req, session, peer>>

\* CACHE_REFRESH_INTERVAL seconds have passed: the interval job is due again
\* (one instance at a time), and the cache entry is one firing older.
IntervalFire ==
    /\ app.started
    /\ \E j \in jobs : j.id = IntervalId
    /\ BagCardinality(runs) < MaxRunning
    /\ \A r \in Running : r.id # IntervalId
    /\ runs' = Start(NewRun(IntervalId))
    /\ cache' = IF ~cache.present THEN cache
                ELSE IF cache.fires >= FiresBeforeExpiry THEN Missing
                ELSE [cache EXCEPT !.fires = @ + 1]
    /\ UNCHANGED <<ldap, ldapUp, jobs, nextUuid, nReq, lastReq, burst, hist, imp, view, flt,
                 app, config, db, req, session, peer>>

\* The entry's timeout elapses.
CacheExpire ==
    /\ cache.present
    /\ cache.fires >= FiresBeforeExpiry
    /\ cache' = Missing
    /\ UNCHANGED <<ldap, ldapUp, jobs, runs, nextUuid, nReq, lastReq, burst, hist, imp, view, flt,
                 app, config, db, req, session, peer>>

\* A search whose result is added to the cached list.
refresh_search_merges(r) ==
    [r EXCEPT !.pc = "set",
              !.people_list = CacheGet \o search_ldap(ldap, ldapUp, ContactsDn),
              !.found = ldapUp]

\* A search that falls back to the cached list when the directory fails.
refresh_search_keeps_stale(r) ==
    [r EXCEPT !.pc = "set",
              !.people_list = IF ldapUp THEN search_ldap(ldap, ldapUp, ContactsDn) ELSE CacheGet,
              !.found = ldapUp]

\* refresh_ldap_cache, first half: the directory search.
refresh_search(r) ==
    [r EXCEPT !.pc = "set",
              !.people_list = search_ldap(ldap, ldapUp, ContactsDn),
              !.found = ldapUp]

RefreshSearch ==
    \E r \in Running :
        /\ r.pc = "search"
        /\ runs' = Finish(r) (+) SetToBag({refresh_search(r)})
        /\ UNCHANGED <<ldap, ldapUp, cache, jobs, nextUuid, nReq, lastReq, burst, hist, imp, view, flt,
                 app, config, db, req, session, peer>>

\* A set whose failed run takes the interval job out of the store.
RefreshSetStopsTimer ==
    \E r \in Running :
        /\ r.pc = "set"
        /\ cache' = CacheSet(r.people_list)
        /\ runs' = Finish(r)
        /\ jobs' = IF r.found THEN jobs ELSE {j \in jobs : j.id # IntervalId}
        /\ hist' = [hist EXCEPT !.stored = r.people_list, !.storedOk = r.found,
                                !.everOk = @ \/ r.found]
        /\ UNCHANGED <<ldap, ldapUp, nextUuid, nReq, lastReq, burst, imp, view, flt,
                 app, config, db, req, session, peer>>

\* A set that stores the list without its first record.
RefreshSetHalf ==
    \E r \in Running :
        /\ r.pc = "set"
        /\ cache' = CacheSet(IF r.people_list = << >> THEN << >> ELSE Tail(r.people_list))
        /\ runs' = Finish(r)
        /\ hist' = [hist EXCEPT !.stored = r.people_list, !.storedOk = r.found,
                                !.everOk = @ \/ r.found]
        /\ UNCHANGED <<ldap, ldapUp, jobs, nextUuid, nReq, lastReq, burst, imp, view, flt,
                 app, config, db, req, session, peer>>

\* refresh_ldap_cache, second half: cache.set("all_people", people_list).
RefreshSet ==
    \E r \in Running :
        /\ r.pc = "set"
        /\ cache' = CacheSet(r.people_list)
        /\ runs' = Finish(r)
        /\ hist' = [hist EXCEPT !.stored = r.people_list, !.storedOk = r.found,
                                !.everOk = @ \/ r.found]
        /\ UNCHANGED <<ldap, ldapUp, jobs, nextUuid, nReq, lastReq, burst, imp, view, flt,
                 app, config, db, req, session, peer>>

\* The directory server becomes unreachable, or reachable again.
LdapDown ==
    /\ ldapUp
    /\ ldapUp' = FALSE
    /\ UNCHANGED <<ldap, cache, jobs, runs, nextUuid, nReq, lastReq, burst, hist, imp, view, flt,
                 app, config, db, req, session, peer>>

LdapBack ==
    /\ ~ldapUp
    /\ ldapUp' = TRUE
    /\ UNCHANGED <<ldap, cache, jobs, runs, nextUuid, nReq, lastReq, burst, hist, imp, view, flt,
                 app, config, db, req, session, peer>>


(***************************************************************************)
(* The import stream's steps.                                              *)
(***************************************************************************)
Person(cn, mail) == [cn |-> cn, mail |-> mail]

ImportRecord ==
    /\ imp.pc = "loop"
    /\ imp.i < Len(imp.connections)
    /\ LET out == import_record(imp, ldap, ldapUp, Uuid(nextUuid))
       IN /\ imp' = out.imp
          /\ ldap' = out.ldap
          /\ nextUuid' = nextUuid + out.uuids
    /\ UNCHANGED <<ldapUp, cache, jobs, runs, nReq, lastReq, burst, hist, view, flt,
                 app, config, db, req, session, peer>>

ImportFinish ==
    /\ imp.pc = "loop"
    /\ imp.i = Len(imp.connections)
    /\ LET out == import_finish(imp)
       IN /\ imp' = out.imp
          /\ jobs' = ApplyCalls(jobs, burst, out.calls)
          /\ burst' = NoteCalls(burst, out.calls)
    /\ UNCHANGED <<ldap, ldapUp, cache, runs, nextUuid, nReq, lastReq, hist, view, flt,
                 app, config, db, req, session, peer>>

\* import_stream requested by an editor while the application serves writes.
AppSources == {<<Person("Al", "")>>, <<Person("Bo", "")>>}

ImportStream ==
    /\ app.pc = "serving"
    /\ imp.pc \in {"idle", "done"}
    /\ nReq < MaxReq
    /\ nReq' = nReq + 1
    /\ \E u \in Editors, privacy \in {"public", "private"}, pages \in AppSources :
           imp' = import_start(TRUE, u, privacy, pages, FALSE)
    /\ UNCHANGED <<ldap, ldapUp, cache, jobs, runs, nextUuid, lastReq, burst, hist, view, flt,
                 app, config, db, req, session, peer>>

Next ==
    \/ AddPerson
    \/ EditPerson
    \/ DeletePerson
    \/ ToggleContactPrivacy
    \/ SchedulerRunJob
    \/ IntervalFire
    \/ CacheExpire
    \/ RefreshSearch
    \/ RefreshSet
    \/ LdapDown
    \/ LdapBack

Spec == Init /\ [][Next]_vars

(***************************************************************************)
(* Overlapping refreshes: the interval job and the on-demand job of        *)
(* add_person run on different workers while contacts are added.  Nothing  *)
(* is ever removed here, so of two successful searches the one with the    *)
(* shorter result is the one that started earlier.                         *)
(***************************************************************************)
NextRefresh ==
    \/ AddPerson
    \/ SchedulerRunJob
    \/ IntervalFire
    \/ RefreshSearch
    \/ RefreshSet

SpecRefresh == Init /\ [][NextRefresh]_vars

(***************************************************************************)
(* The writers and the scheduler alone: the write routes, import streams   *)
(* started while the application serves writes, and the on-demand jobs.    *)
(***************************************************************************)
NextSched ==
    \/ AddPerson
    \/ EditPerson
    \/ DeletePerson
    \/ ToggleContactPrivacy
    \/ ImportStream
    \/ ImportRecord
    \/ ImportFinish
    \/ SchedulerRunJob
    \/ RefreshSearch
    \/ RefreshSet

SpecSched == Init /\ [][NextSched]_vars

(***************************************************************************)
(* One import stream, from any source and in any directory.                *)
(***************************************************************************)
ImportDirs ==
    { {},
      {Entry("e1", ContactsDn, <<"Al">>, <<"x@y">>, 1)},
      {Entry("e1", ContactsDn, <<"Bo", "Al">>, <<"z@y", "x@y">>, 1)},
      {Entry("e2", PrivateOu(1), <<"AL">>, << >>, 1)} }

Persons == [cn : {"", "Al", "AL", "Bo"}, mail : {"", "x@y", "X@Y"}]
Sources == UNION {[1..n -> Persons] : n \in 0..MaxRecords}

InitImport == view = NoView /\ flt = NoFilter /\ Defaults /\ \E dir \in ImportDirs, up \in BOOLEAN : InitApp(dir, up)

ImportStreamAny ==
    /\ app.pc = "serving"
    /\ imp.pc = "idle"
    /\ \E token \in BOOLEAN, u \in Editors, privacy \in {"public", "private"},
          pages \in Sources, failing \in BOOLEAN :
           imp' = import_start(token, u, privacy, pages, failing)
    /\ UNCHANGED <<ldap, ldapUp, cache, jobs, runs, nextUuid, nReq, lastReq, burst, hist, view, flt,
                 app, config, db, req, session, peer>>

NextImport ==
    \/ ImportStreamAny
    \/ ImportRecord
    \/ ImportFinish
    \/ LdapDown
    \/ LdapBack

SpecImport == InitImport /\ [][NextImport]_vars

(***************************************************************************)
(* Two import streams at once: import_stream is an ordinary route, so a    *)
(* second request (another tab, another editor session) is served by       *)
(* another worker while the first generator is still in its loop.  Each    *)
(* generator has its own locals; they share the directory.                 *)
(***************************************************************************)
PeerSources == {<<Person("Al", ""), Person("Bo", "x@y")>>,
                <<Person("AL", "X@Y")>>}

ImportStreamOf(st) ==
    /\ app.pc = "serving"
    /\ st.pc = "idle"

ImportStreamFirst ==
    /\ ImportStreamOf(imp)
    /\ \E u \in Editors, privacy \in {"public", "private"}, pages \in PeerSources :
           imp' = import_start(TRUE, u, privacy, pages, FALSE)
    /\ UNCHANGED <<ldap, ldapUp, cache, jobs, runs, nextUuid, nReq, lastReq, burst, hist, view,
                   flt, app, config, db, req, session, peer>>

ImportStreamPeer ==
    /\ ImportStreamOf(peer)
    /\ \E u \in Editors, privacy \in {"public", "private"}, pages \in PeerSources :
           peer' = import_start(TRUE, u, privacy, pages, FALSE)
    /\ UNCHANGED <<ldap, ldapUp, cache, jobs, runs, nextUuid, nReq, lastReq, burst, hist, imp,
                   view, flt, app, config, db, req, session>>

ImportRecordPeer ==
    /\ peer.pc = "loop"
    /\ peer.i < Len(peer.connections)
    /\ LET out == import_record(peer, ldap, ldapUp, Uuid(nextUuid))
       IN /\ peer' = out.imp
          /\ ldap' = out.ldap
          /\ nextUuid' = nextUuid + out.uuids
    /\ UNCHANGED <<ldapUp, cache, jobs, runs, nReq, lastReq, burst, hist, imp, view, flt,
                   app, config, db, req, session>>

ImportFinishPeer ==
    /\ peer.pc = "loop"
    /\ peer.i = Len(peer.connections)
    /\ LET out == import_finish(peer)
       IN /\ peer' = out.imp
          /\ jobs' = ApplyCalls(jobs, burst, out.calls)
          /\ burst' = NoteCalls(burst, out.calls)
    /\ UNCHANGED <<ldap, ldapUp, cache, runs, nextUuid, nReq, lastReq, hist, imp, view, flt,
                   app, config, db, req, session>>

NextPeers ==
    \/ ImportStreamFirst
    \/ ImportStreamPeer
    \/ ImportRecord
    \/ ImportRecordPeer
    \/ ImportFinish
    \/ ImportFinishPeer

SpecPeers == InitImport /\ [][NextPeers]_vars

(***************************************************************************)
(* The visibility merge on any two search results.                         *)
(***************************************************************************)
MergeDns == {<<<<"uid", UuidName[k]>>, ContactsDn>> : k \in 1..3}
MergeRecs == {[dn |-> dn, cn |-> <<c>>, mail |-> << >>, owner |-> 1] : dn \in MergeDns, c \in Names}

\* A search result lists every entry once.
Results ==
    {l \in UNION {[1..n -> MergeRecs] : n \in 0..MaxList} :
        \A a, b \in 1..Len(l) : l[a].dn = l[b].dn => a = b}

InitMerge ==
    /\ InitApp({}, TRUE)
    /\ Defaults
    /\ flt = NoFilter
    /\ \E pub \in Results, priv \in Results :
           view = [NoView EXCEPT !.public = pub, !.private = priv]

VisibleContacts ==
    /\ ~view.done
    /\ view' = [view EXCEPT !.done = TRUE, !.out = merge_visible(view.public, view.private)]
    /\ UNCHANGED <<ldap, ldapUp, cache, jobs, runs, nextUuid, nReq, lastReq, burst, hist, imp, flt,
                 app, config, db, req, session, peer>>

NextMerge == VisibleContacts

SpecMerge == InitMerge /\ [][NextMerge]_vars

(***************************************************************************)
(* Readers and the periodic refresh: index and the other read routes call  *)
(* _get_visible_contacts while the interval job runs and the directory     *)
(* comes and goes.  No request writes.                                     *)
(***************************************************************************)
ReadDirs ==
    { {},
      {Entry("e1", ContactsDn, <<"a">>, << >>, 1)},
      {Entry("e1", ContactsDn, <<"a">>, << >>, 1), Entry("e2", PrivateOu(1), <<"b">>, << >>, 1)},
      {Entry("e1", ContactsDn, <<"a">>, << >>, 1), Entry("e1", PrivateOu(2), <<"b">>, << >>, 2)} }

InitRead == view = NoView /\ flt = NoFilter /\ Defaults /\ \E dir \in ReadDirs, up \in BOOLEAN : InitApp(dir, up)

\* A read that stores the merged list as the new Snapshot.
GetVisibleContactsCaching ==
    /\ app.pc = "serving"
    /\ \E u \in Users :
           /\ view' = [done |-> TRUE,
                       public |-> CacheGet,
                       private |-> private_contacts(u).list,
                       out |-> get_visible_contacts(u),
                       failed |-> ~ldapUp,
                       user |-> u,
                       searched |-> private_contacts(u).searched]
           /\ cache' = CacheSet(get_visible_contacts(u))
    /\ UNCHANGED <<ldap, ldapUp, jobs, runs, nextUuid, nReq, lastReq, burst, hist, imp, flt,
                   app, config, db, req, session, peer>>

GetVisibleContacts ==
    /\ app.pc = "serving"
    /\ \E u \in Users :
           view' = [done |-> TRUE,
                    public |-> CacheGet,
                    private |-> private_contacts(u).list,
                    out |-> get_visible_contacts(u),
                    failed |-> ~ldapUp,
                    user |-> u,
                    searched |-> private_contacts(u).searched]
    /\ UNCHANGED <<ldap, ldapUp, cache, jobs, runs, nextUuid, nReq, lastReq, burst, hist, imp, flt,
                 app, config, db, req, session, peer>>

NextRead ==
    \/ GetVisibleContacts
    \/ IntervalFire
    \/ CacheExpire
    \/ RefreshSearch
    \/ RefreshSet
    \/ LdapDown
    \/ LdapBack

SpecRead == InitRead /\ [][NextRead]_vars

SpecReadFair ==
    /\ SpecRead
    /\ WF_vars(IntervalFire)
    /\ WF_vars(RefreshSearch)
    /\ WF_vars(RefreshSet)

(***************************************************************************)
(* Readers under any setting of the private contacts: every user opens the *)
(* list pages and the person pages, with any identifier, while the         *)
(* interval job refreshes the Snapshot and the directory comes and goes.   *)
(***************************************************************************)
PrivacyConfigs ==
    {[DefaultConfig EXCEPT !.LDAP_PRIVATE_OU_TEMPLATE = t, !.ENABLE_PRIVATE_CONTACTS = e] :
        t \in {"", "ou=user_{user_id}"}, e \in BOOLEAN}

InitPrivacy ==
    /\ view = NoView
    /\ flt = NoFilter
    /\ \E dir \in ReadDirs, up \in BOOLEAN, c \in PrivacyConfigs :
           /\ InitApp(dir, up)
           /\ config = c
           /\ db = DefaultDb

Ids == {b64encode(dn) : dn \in AllDns} \cup {Garbage}

Read(route, u, b64_dn, resp) ==
    /\ app.pc = "serving"
    /\ req' = [route |-> route, user |-> u, status |-> resp.status, ops |-> resp.ops,
               ok |-> resp.status = 200, out |-> resp.out, nsched |-> 0,
               decodable |-> b64decode_with_padding(b64_dn).ok, cn |-> "None"]
    /\ UNCHANGED <<ldap, ldapUp, cache, jobs, runs, nextUuid, nReq, lastReq, burst, hist, imp,
                   view, flt, app, config, db, session, peer>>

PersonDetail == \E u \in Users, id \in Ids : Read("person_detail", u, id, person_detail(u, id))
PersonMap == \E u \in Users, id \in Ids : Read("person_map", u, id, person_map(u, id))
PersonVcard == \E u \in Users, id \in Ids : Read("person_vcard", u, id, person_vcard(u, id))

NextPrivacy ==
    \/ GetVisibleContacts
    \/ PersonDetail
    \/ PersonMap
    \/ PersonVcard
    \/ IntervalFire
    \/ CacheExpire
    \/ RefreshSearch
    \/ RefreshSet
    \/ LdapDown
    \/ LdapBack

SpecPrivacy == InitPrivacy /\ [][NextPrivacy]_vars

(***************************************************************************)
(* Writers, import streams, readers and the on-demand refreshes together.  *)
(***************************************************************************)
NextFrame ==
    \/ AddPerson
    \/ EditPerson
    \/ DeletePerson
    \/ ToggleContactPrivacy
    \/ ImportStream
    \/ ImportRecord
    \/ ImportFinish
    \/ GetVisibleContacts
    \/ SchedulerRunJob
    \/ RefreshSearch
    \/ RefreshSet

SpecFrame == Init /\ [][NextFrame]_vars

(***************************************************************************)
(* The Refresher's filter on any configured class list and any directory.  *)
(***************************************************************************)
Classes == {"inetOrgPerson", "residentialPerson", "organizationalUnit"}
PersonClasses == {"inetOrgPerson", "residentialPerson"}
ClassLists ==
    {l \in UNION {[1..n -> PersonClasses] : n \in 1..MaxClasses} :
        \A a, b \in 1..Len(l) : l[a] = l[b] => a = b}
FilterEntries == [dn : {"e1", "e2"}, objectClass : (SUBSET Classes) \ {{}}]
FilterDirs == {d \in SUBSET FilterEntries : \A e, f \in d : e.dn = f.dn => e = f}

InitFilter ==
    /\ InitApp({}, TRUE)
    /\ Defaults
    /\ view = NoView
    /\ \E l \in ClassLists, d \in FilterDirs :
           flt = [NoFilter EXCEPT !.person_classes = l, !.dir = d]

RefreshFilter ==
    /\ ~flt.done
    /\ flt' = [flt EXCEPT !.done = TRUE,
                          !.out = {e \in flt.dir :
                                      FilterMatches(search_filter(flt.person_classes), e)}]
    /\ UNCHANGED <<ldap, ldapUp, cache, jobs, runs, nextUuid, nReq, lastReq, burst, hist, imp,
                   view, app, config, db, req, session, peer>>

NextFilter == RefreshFilter

SpecFilter == InitFilter /\ [][NextFilter]_vars

(***************************************************************************)
(* The application from the start of create_app's scheduler block to the   *)
(* end of the process: the synchronous Refresher run, the registration of  *)
(* the interval job, scheduler.start(), requests, and scheduler.shutdown() *)
(* at exit, which waits for the jobs that are running.                     *)
(***************************************************************************)
Booting == [pc |-> "refresh_search", started |-> FALSE, people_list |-> << >>, found |-> FALSE]
StartupId == <<"startup", 0>>

InitBoot ==
    /\ view = NoView
    /\ flt = NoFilter
    /\ Defaults
    /\ \E dir \in InitDirs, up \in BOOLEAN :
           /\ ldap = dir
           /\ ldapUp = up
    /\ cache = Missing
    /\ jobs = {}
    /\ runs = EmptyBag
    /\ nextUuid = 1
    /\ nReq = 0
    /\ lastReq = NoReq
    /\ burst = [k \in Kinds |-> NoBurst]
    /\ hist = [stored |-> << >>, storedOk |-> FALSE, everOk |-> FALSE]
    /\ imp = Idle
    /\ app = Booting
    /\ req = NoRequest
    /\ session = NoSession
    /\ peer = Idle

\* Line 116, refresh_ldap_cache(app) in the main thread: the search.
BootRefreshSearch ==
    /\ app.pc = "refresh_search"
    /\ LET r == refresh_search(NewRun(StartupId))
       IN app' = [app EXCEPT !.pc = "refresh_set", !.people_list = r.people_list,
                             !.found = r.found]
    /\ UNCHANGED <<ldap, ldapUp, cache, jobs, runs, nextUuid, nReq, lastReq, burst, hist, imp,
                   view, flt, config, db, req, session, peer>>

\* Line 116, continued: cache.set, and the return to create_app.
BootRefreshSet ==
    /\ app.pc = "refresh_set"
    /\ cache' = [CacheSet(app.people_list) EXCEPT !.fires = StartupAge]
    /\ hist' = [stored |-> app.people_list, storedOk |-> app.found, everOk |-> app.found]
    /\ app' = [app EXCEPT !.pc = "add_job"]
    /\ UNCHANGED <<ldap, ldapUp, jobs, runs, nextUuid, nReq, lastReq, burst, imp,
                   view, flt, config, db, req, session, peer>>

\* Lines 118-123: the interval job.
BootAddJob ==
    /\ app.pc = "add_job"
    /\ jobs' = add_job(jobs, IntervalId, 0, FALSE)
    /\ app' = [app EXCEPT !.pc = "start"]
    /\ UNCHANGED <<ldap, ldapUp, cache, runs, nextUuid, nReq, lastReq, burst, hist, imp,
                   view, flt, config, db, req, session, peer>>

\* A scheduler that is started before the Refresher has run.
BootStartEarly ==
    /\ app.pc = "refresh_search"
    /\ ~app.started
    /\ app' = [app EXCEPT !.started = TRUE]
    /\ UNCHANGED <<ldap, ldapUp, cache, jobs, runs, nextUuid, nReq, lastReq, burst, hist, imp,
                   view, flt, config, db, req, session, peer>>

\* Lines 124-128: scheduler.start(), atexit.register, return app.
BootStart ==
    /\ app.pc = "start"
    /\ app' = [app EXCEPT !.pc = "serving", !.started = TRUE]
    /\ UNCHANGED <<ldap, ldapUp, cache, jobs, runs, nextUuid, nReq, lastReq, burst, hist, imp,
                   view, flt, config, db, req, session, peer>>

\* The process exits: the atexit hook calls scheduler.shutdown(), which
\* stops the dispatch of jobs and waits for the jobs that are running.
Exit ==
    /\ app.pc = "serving"
    /\ app' = [app EXCEPT !.pc = "exiting", !.started = FALSE]
    /\ UNCHANGED <<ldap, ldapUp, cache, jobs, runs, nextUuid, nReq, lastReq, burst, hist, imp,
                   view, flt, config, db, req, session, peer>>

\* A shutdown that returns while jobs are running.
ShutdownNoWait ==
    /\ app.pc = "exiting"
    /\ app' = [app EXCEPT !.pc = "stopped"]
    /\ UNCHANGED <<ldap, ldapUp, cache, jobs, runs, nextUuid, nReq, lastReq, burst, hist, imp,
                   view, flt, config, db, req, session, peer>>

\* scheduler.shutdown() returns: no job is running any more.
ShutdownDone ==
    /\ app.pc = "exiting"
    /\ runs = EmptyBag
    /\ app' = [app EXCEPT !.pc = "stopped"]
    /\ UNCHANGED <<ldap, ldapUp, cache, jobs, runs, nextUuid, nReq, lastReq, burst, hist, imp,
                   view, flt, config, db, req, session, peer>>

NextLife ==
    \/ BootRefreshSearch
    \/ BootRefreshSet
    \/ BootAddJob
    \/ BootStart
    \/ AddPerson
    \/ DeletePerson
    \/ ToggleContactPrivacy
    \/ SchedulerRunJob
    \/ IntervalFire
    \/ RefreshSearch
    \/ RefreshSet
    \/ LdapDown
    \/ LdapBack
    \/ Exit
    \/ ShutdownDone

SpecLife == InitBoot /\ [][NextLife]_vars

(***************************************************************************)
(* Requests through the decorators.  current_user is the row load_user     *)
(* finds for the session's id; a session without a row is anonymous and is *)
(* answered by login_required before the other decorators run.  A          *)
(* decorator returns 403 where it aborts and 200 where it calls the route. *)
(***************************************************************************)
is_authenticated(u) == \E r \in db : r.id = u
current_user(u) == CHOOSE r \in db : r.id = u

admin_required(u) ==
    IF ~is_authenticated(u) \/ ~current_user(u).is_admin THEN 403 ELSE 200

\* A decorator that looks at the roles only.
editor_required_roles_only(u) ==
    IF ~is_authenticated(u) \/ ~(current_user(u).is_admin \/ current_user(u).is_editor)
    THEN 403 ELSE 200

editor_required(u) ==
    IF config.READONLY THEN 403
    ELSE IF ~is_authenticated(u) \/ ~(current_user(u).is_admin \/ current_user(u).is_editor)
    THEN 403 ELSE 200

\* What a route answers: the status and what the request did.
Answer(status, out) == [status |-> status, out |-> out]
NoOutcome == Outcome(FALSE, ldap, << >>, 0, << >>)

add_person_post(u, form) == Answer(302, add_person(u, form))

edit_person_post(u, b64_dn, form) ==
    LET d == b64decode_with_padding(b64_dn)
    IN IF ~d.ok THEN Answer(404, NoOutcome)
       ELSE IF get_entry_by_dn(ldap, ldapUp, d.dn) = {} THEN Answer(404, edit_person(u, d.dn, form))
       ELSE Answer(302, edit_person(u, d.dn, form))

delete_person_post(u, b64_dn) ==
    LET d == b64decode_with_padding(b64_dn)
    IN IF ~d.ok THEN Answer(404, NoOutcome) ELSE Answer(302, delete_person(u, d.dn))

toggle_contact_privacy_post(u, b64_dn) ==
    LET d == b64decode_with_padding(b64_dn)
    IN IF ~d.ok THEN Answer(404, NoOutcome) ELSE Answer(302, toggle_contact_privacy(u, d.dn))

\* Identifiers a client sends: of an entry that exists at the start, of
\* entries that do not, and one that does not decode.
GateIds ==
    {b64encode(<<<<"uid", "e1">>, ContactsDn>>), b64encode(<<<<"uid", "e1">>, PrivateOu(1)>>),
     b64encode(<<<<"uid", "u1">>, ContactsDn>>), Garbage}

Forbidden(route, u, decodable, cn) ==
    [NoRequest EXCEPT !.route = route, !.user = u, !.status = 403, !.decodable = decodable,
                      !.cn = cn]

Request(route, u, gate, decodable, cn, ans) ==
    /\ app.pc = "serving"
    /\ is_authenticated(u)
    /\ IF gate # 200
       THEN /\ req' = Forbidden(route, u, decodable, cn)
            /\ UNCHANGED <<ldap, jobs, burst, nextUuid, nReq>>
       ELSE /\ nReq < MaxGated
            /\ nReq' = nReq + 1
            /\ ldap' = ans.out.ldap
            /\ jobs' = ApplyCalls(jobs, burst, ans.out.calls)
            /\ burst' = NoteCalls(burst, ans.out.calls)
            /\ nextUuid' = nextUuid + ans.out.uuids
            /\ req' = [route |-> route, user |-> u, status |-> ans.status, ops |-> ans.out.ops,
                       ok |-> ans.out.ok, out |-> << >>, nsched |-> Len(ans.out.calls),
                       decodable |-> decodable, cn |-> cn]
    /\ UNCHANGED <<ldapUp, cache, runs, lastReq, hist, imp, view, flt, app, config, db, session, peer>>

AddPersonRequest ==
    \E u \in Users, form \in AddForms :
        Request("add_person", u, editor_required(u), TRUE, form.cn, add_person_post(u, form))

EditPersonRequest ==
    \E u \in Users, id \in GateIds, form \in EditForms :
        Request("edit_person", u, editor_required(u), b64decode_with_padding(id).ok, "None",
                edit_person_post(u, id, form))

DeletePersonRequest ==
    \E u \in Users, id \in GateIds :
        Request("delete_person", u, editor_required(u), b64decode_with_padding(id).ok, "None",
                delete_person_post(u, id))

ToggleContactPrivacyRequest ==
    \E u \in Users, id \in GateIds :
        Request("toggle_contact_privacy", u, editor_required(u), b64decode_with_padding(id).ok,
                "None", toggle_contact_privacy_post(u, id))

PersonDetailRequest ==
    \E u \in Users, id \in GateIds : Read("person_detail", u, id, person_detail(u, id))
PersonMapRequest ==
    \E u \in Users, id \in GateIds : Read("person_map", u, id, person_map(u, id))
PersonVcardRequest ==
    \E u \in Users, id \in GateIds : Read("person_vcard", u, id, person_vcard(u, id))

GateSources == {<<Person("Al", "")>>}

ImportStreamRequest ==
    \E u \in Users, privacy \in {"public", "private"}, pages \in GateSources :
        /\ app.pc = "serving"
        /\ is_authenticated(u)
        /\ IF editor_required(u) # 200
           THEN /\ req' = Forbidden("import_stream", u, TRUE, "None")
                /\ UNCHANGED <<imp, nReq>>
           ELSE /\ imp.pc \in {"idle", "done"}
                /\ nReq < MaxGated
                /\ nReq' = nReq + 1
                /\ imp' = import_start(TRUE, u, privacy, pages, FALSE)
                /\ req' = [NoRequest EXCEPT !.route = "import_stream", !.user = u, !.status = 200,
                                            !.ops = IF imp'.searched THEN <<"search_ldap">>
                                                    ELSE << >>,
                                            !.ok = TRUE]
        /\ UNCHANGED <<ldap, ldapUp, cache, jobs, runs, nextUuid, lastReq, burst, hist, view, flt,
                       app, config, db, session, peer>>

(***************************************************************************)
(* The admin routes.  An LDAP account is the entry LDAP_USER_DN_TEMPLATE   *)
(* names for the username; ids of new rows come from the autoincrement     *)
(* primary key.                                                            *)
(***************************************************************************)
UsersDn == <<"users", 0>>
UserDn(username) == <<<<"uid", username>>, UsersDn>>

add_ldap_user(dir, up, username, email, given_name, surname) ==
    IF config.LDAP_USER_DN_TEMPLATE = "" THEN [ok |-> FALSE, ldap |-> dir]
    ELSE IF ~up \/ (\E e \in dir : e.dn = UserDn(username)) THEN [ok |-> FALSE, ldap |-> dir]
    ELSE [ok |-> TRUE,
          ldap |-> dir \cup {[dn |-> UserDn(username), cn |-> <<given_name \o " " \o surname>>,
                               mail |-> <<email>>, owner |-> 0]}]

delete_ldap_user(dir, up, username) ==
    IF config.LDAP_USER_DN_TEMPLATE = "" THEN [ok |-> FALSE, ldap |-> dir]
    ELSE IF ~up \/ ~(\E e \in dir : e.dn = UserDn(username)) THEN [ok |-> FALSE, ldap |-> dir]
    ELSE [ok |-> TRUE, ldap |-> {e \in dir : e.dn # UserDn(username)}]

Admin(status, ok, rows, dir, ops) ==
    [status |-> status, ok |-> ok, db |-> rows, ldap |-> dir, ops |-> ops]

NextId == 1 + (CHOOSE n \in {r.id : r \in db} \cup {0} : \A r \in db : r.id <= n)

_add_local_user(username, email, password) ==
    IF email = "" THEN Admin(302, FALSE, db, ldap, << >>)
    ELSE IF \E r \in db : r.email = email THEN Admin(302, FALSE, db, ldap, << >>)
    ELSE Admin(302, TRUE, db \cup {User(NextId, username, email, "local", FALSE, FALSE)}, ldap,
               << >>)

\* A helper that writes the row whatever add_ldap_user returns.
_add_ldap_user_row_first(username, password, email, given_name, surname) ==
    LET r == add_ldap_user(ldap, ldapUp, username, email, given_name, surname)
    IN IF given_name = "" \/ surname = "" \/ email = "" THEN Admin(302, FALSE, db, ldap, << >>)
       ELSE IF \E u \in db : u.email = email THEN Admin(302, FALSE, db, ldap, << >>)
       ELSE Admin(302, r.ok, db \cup {User(NextId, username, email, "ldap", FALSE, FALSE)},
                  r.ldap, <<"add_ldap_user">>)

_add_ldap_user(username, password, email, given_name, surname) ==
    LET r == add_ldap_user(ldap, ldapUp, username, email, given_name, surname)
    IN IF given_name = "" \/ surname = "" \/ email = "" THEN Admin(302, FALSE, db, ldap, << >>)
       ELSE IF \E u \in db : u.email = email THEN Admin(302, FALSE, db, ldap, << >>)
       ELSE IF r.ok
       THEN Admin(302, TRUE, db \cup {User(NextId, username, email, "ldap", FALSE, FALSE)},
                  r.ldap, <<"add_ldap_user">>)
       ELSE Admin(302, FALSE, db, ldap, <<"add_ldap_user">>)

add_user(form) ==
    IF form.username = "" \/ form.password = "" THEN Admin(302, FALSE, db, ldap, << >>)
    ELSE IF \E r \in db : r.username = form.username THEN Admin(302, FALSE, db, ldap, << >>)
    ELSE IF form.auth_type = "local"
    THEN _add_local_user(form.username, form.email, form.password)
    ELSE IF form.auth_type = "ldap"
    THEN _add_ldap_user(form.username, form.password, form.email, form.given_name, form.surname)
    ELSE Admin(302, FALSE, db, ldap, << >>)

delete_user(user_id) ==
    IF user_id = 1 THEN Admin(302, FALSE, db, ldap, << >>)
    ELSE IF ~(\E r \in db : r.id = user_id) THEN Admin(404, FALSE, db, ldap, << >>)
    ELSE LET user == CHOOSE r \in db : r.id = user_id
             r == delete_ldap_user(ldap, ldapUp, user.username)
         IN IF user.auth_source = "ldap"
            THEN IF ~r.ok THEN Admin(302, FALSE, db, ldap, <<"delete_ldap_user">>)
                 ELSE Admin(302, TRUE, db \ {user}, r.ldap, <<"delete_ldap_user">>)
            ELSE Admin(302, TRUE, db \ {user}, ldap, << >>)

\* A role change that accepts every user id.
set_roles_any_user(user_id, is_admin, is_editor) ==
    IF ~(\E r \in db : r.id = user_id) THEN Admin(404, FALSE, db, ldap, << >>)
    ELSE Admin(302, TRUE,
               {IF r.id = user_id THEN [r EXCEPT !.is_admin = is_admin, !.is_editor = is_editor]
                ELSE r : r \in db},
               ldap, << >>)

set_roles(user_id, is_admin, is_editor) ==
    IF user_id = 1 THEN Admin(302, FALSE, db, ldap, << >>)
    ELSE IF ~(\E r \in db : r.id = user_id) THEN Admin(404, FALSE, db, ldap, << >>)
    ELSE Admin(302, TRUE,
               {IF r.id = user_id THEN [r EXCEPT !.is_admin = is_admin, !.is_editor = is_editor]
                ELSE r : r \in db},
               ldap, << >>)

admin_users == Admin(200, TRUE, db, ldap, << >>)
admin_cache == Admin(200, TRUE, db, ldap, << >>)

AdminRequest(route, u, out) ==
    /\ app.pc = "serving"
    /\ is_authenticated(u)
    /\ IF admin_required(u) # 200
       THEN /\ req' = Forbidden(route, u, TRUE, "None")
            /\ UNCHANGED <<ldap, db, nReq>>
       ELSE /\ nReq < MaxGated
            /\ nReq' = nReq + 1
            /\ ldap' = out.ldap
            /\ db' = out.db
            /\ req' = [NoRequest EXCEPT !.route = route, !.user = u, !.status = out.status,
                                        !.ops = out.ops, !.ok = out.ok]
    /\ UNCHANGED <<ldapUp, cache, jobs, runs, nextUuid, lastReq, burst, hist, imp, view, flt, app,
                   config, session, peer>>

AddUserForms ==
    [auth_type : {"local", "ldap"}, username : {"bob", "carol"}, email : {"", "c@x"},
     password : {"pw"}, given_name : {"C"}, surname : {"D"}]

UserIds == 1..3

AdminUsers == \E u \in Users : AdminRequest("admin_users", u, admin_users)
AdminCache == \E u \in Users : AdminRequest("admin_cache", u, admin_cache)
AddUser == \E u \in Users, form \in AddUserForms : AdminRequest("add_user", u, add_user(form))
DeleteUser == \E u \in Users, user_id \in UserIds : AdminRequest("delete_user", u, delete_user(user_id))
SetRoles ==
    \E u \in Users, user_id \in UserIds, is_admin \in BOOLEAN, is_editor \in BOOLEAN :
        AdminRequest("set_roles", u, set_roles(user_id, is_admin, is_editor))

(***************************************************************************)
(* The routes behind their decorators, over the settings and the roles of  *)
(* user 2, an LDAP user, with and without that user's entry in the         *)
(* directory.                                                              *)
(***************************************************************************)
GateConfigs ==
    {[DefaultConfig EXCEPT !.READONLY = ro, !.LDAP_CONTACT_DN_TEMPLATE = t] :
        ro \in BOOLEAN, t \in {"", "uid={uid}"}}

GateDbs ==
    {{User(1, "admin", "a@x", "local", TRUE, TRUE), User(2, "bob", "b@x", "ldap", r[1], r[2])} :
        r \in {<<FALSE, FALSE>>, <<FALSE, TRUE>>, <<TRUE, FALSE>>}}

BobEntry == [dn |-> UserDn("bob"), cn |-> <<"B B">>, mail |-> <<"b@x">>, owner |-> 0]

GateDirs == {{Entry("e1", ContactsDn, <<"a">>, << >>, 1)} \cup acct : acct \in {{}, {BobEntry}}}

InitGate ==
    /\ view = NoView
    /\ flt = NoFilter
    /\ \E dir \in GateDirs, up \in BOOLEAN, c \in GateConfigs, rows \in GateDbs :
           /\ InitApp(dir, up)
           /\ config = c
           /\ db = rows

NextGate ==
    \/ AddPersonRequest
    \/ EditPersonRequest
    \/ DeletePersonRequest
    \/ ToggleContactPrivacyRequest
    \/ ImportStreamRequest
    \/ PersonDetailRequest
    \/ PersonMapRequest
    \/ PersonVcardRequest
    \/ AdminUsers
    \/ AdminCache
    \/ AddUser
    \/ DeleteUser
    \/ SetRoles
    \/ LdapDown
    \/ LdapBack

SpecGate == InitGate /\ [][NextGate]_vars

(***************************************************************************)
(* Two editors and an entry in the private subtree of one of them.  The    *)
(* write routes take the dn from the URL; any logged-in editor can send    *)
(* the identifier of any entry.                                            *)
(***************************************************************************)
OwnerDbs ==
    {{User(1, "admin", "a@x", "local", TRUE, TRUE), User(2, "bob", "b@x", "local", r[1], r[2])} :
        r \in {<<FALSE, TRUE>>, <<TRUE, FALSE>>}}

OwnerDirs ==
    {{Entry("e1", PrivateOu(1), <<cn>>, << >>, 1)} \cup pub :
        cn \in Names, pub \in {{}, {Entry("e1", ContactsDn, <<"a">>, << >>, 2)}}}

InitOwner ==
    /\ view = NoView
    /\ flt = NoFilter
    /\ config = DefaultConfig
    /\ \E dir \in OwnerDirs, up \in BOOLEAN, rows \in OwnerDbs :
           /\ InitApp(dir, up)
           /\ db = rows

NextOwner ==
    \/ EditPersonRequest
    \/ DeletePersonRequest
    \/ ToggleContactPrivacyRequest
    \/ LdapDown
    \/ LdapBack

SpecOwner == InitOwner /\ [][NextOwner]_vars

(***************************************************************************)
(* Contacts with a manager: b reports to a.  The manager attribute holds   *)
(* the dn the subordinate was given; a move of the manager's entry leaves  *)
(* it as it is.                                                            *)
(***************************************************************************)
Reports(e, boss_dn) ==
    [dn |-> e.dn, cn |-> e.cn, mail |-> e.mail, owner |-> e.owner, manager |-> boss_dn]

ManagerDirs ==
    {{Reports(Entry("e1", ou, <<"a">>, << >>, 1), << >>),
      Reports(Entry("e2", ContactsDn, <<"b">>, << >>, 1), <<<<<<"uid", "e1">>, ContactsDn>>>>)} :
        ou \in {ContactsDn, PrivateOu(1)}}

InitManager ==
    /\ view = NoView
    /\ flt = NoFilter
    /\ Defaults
    /\ \E dir \in ManagerDirs, up \in BOOLEAN : InitApp(dir, up)

NextManager ==
    \/ DeletePerson
    \/ ToggleContactPrivacy
    \/ LdapDown
    \/ LdapBack

SpecManager == InitManager /\ [][NextManager]_vars

(***************************************************************************)
(* One import stream and its consumer.  import_stream hands the generator  *)
(* to the WSGI server, which resumes it for the next event after it has    *)
(* written the last one; the client reads what the server wrote.  When the *)
(* client goes away the server finds out at a later write, and closes the  *)
(* generator where it is suspended: the generator has no try/finally, so   *)
(* nothing of it runs after that.                                          *)
(***************************************************************************)
\* A close that removes what the run has added.
StreamCloseRollsBack ==
    /\ imp.pc = "loop"
    /\ imp.gone
    /\ imp' = [imp EXCEPT !.pc = "closed"]
    /\ ldap' = {e \in ldap : e.dn \notin imp.written}
    /\ UNCHANGED <<ldapUp, cache, jobs, runs, nextUuid, nReq, lastReq, burst, hist, view, flt,
                   app, config, db, req, session, peer>>

ClientDisconnect ==
    /\ imp.pc = "loop"
    /\ ~imp.gone
    /\ imp' = [imp EXCEPT !.gone = TRUE, !.received = Len(imp.events)]
    /\ UNCHANGED <<ldap, ldapUp, cache, jobs, runs, nextUuid, nReq, lastReq, burst, hist, view,
                   flt, app, config, db, req, session, peer>>

StreamClose ==
    /\ imp.pc = "loop"
    /\ imp.gone
    /\ imp' = [imp EXCEPT !.pc = "closed"]
    /\ UNCHANGED <<ldap, ldapUp, cache, jobs, runs, nextUuid, nReq, lastReq, burst, hist, view,
                   flt, app, config, db, req, session, peer>>

NextCancel ==
    \/ ImportStreamAny
    \/ ImportRecord
    \/ ImportFinish
    \/ ClientDisconnect
    \/ StreamClose

SpecCancel == InitImport /\ [][NextCancel]_vars

(***************************************************************************)
(* The import keys of the session.  authorize_google_import stores the     *)
(* privacy the editor chose, google_import_callback the access token, and  *)
(* import_stream pops both and hands them to the generator.  Flask saves   *)
(* the session when the response starts, before the stream is consumed.    *)
(***************************************************************************)
AuthorizeGoogleImport ==
    /\ app.pc = "serving"
    /\ \E privacy \in {"public", "private"} :
           session' = [session EXCEPT !.import_privacy = privacy]
    /\ UNCHANGED <<ldap, ldapUp, cache, jobs, runs, nextUuid, nReq, lastReq, burst, hist, imp,
                   view, flt, app, config, db, req, peer>>

\* authorize_access_token() returns the token or raises.
GoogleImportCallback ==
    /\ app.pc = "serving"
    /\ nReq < MaxReq
    /\ nReq' = nReq + 1
    /\ \E authorized \in BOOLEAN :
           session' = IF authorized
                      THEN [session EXCEPT !.google_import_token = TRUE, !.uses = 0]
                      ELSE session
    /\ UNCHANGED <<ldap, ldapUp, cache, jobs, runs, nextUuid, lastReq, burst, hist, imp, view,
                   flt, app, config, db, req, peer>>

\* A stream endpoint that reads the keys and leaves them in the session.
ImportStreamSessionGet ==
    /\ app.pc = "serving"
    /\ imp.pc \in {"idle", "done"}
    /\ session.uses < MaxReq
    /\ \E pages \in AppSources, u \in Editors :
           LET token == session.google_import_token
               privacy == IF session.import_privacy = "absent" THEN "public"
                          ELSE session.import_privacy
           IN imp' = import_start(token, u, privacy, pages, FALSE)
    /\ session' = [session EXCEPT !.uses = @ + 1]
    /\ UNCHANGED <<ldap, ldapUp, cache, jobs, runs, nextUuid, nReq, lastReq, burst, hist, view,
                   flt, app, config, db, req, peer>>

ImportStreamSession ==
    /\ app.pc = "serving"
    /\ imp.pc \in {"idle", "done"}
    /\ session.uses < MaxReq
    /\ \E pages \in AppSources, u \in Editors :
           LET token == session.google_import_token
               privacy == IF session.import_privacy = "absent" THEN "public"
                          ELSE session.import_privacy
           IN imp' = import_start(token, u, privacy, pages, FALSE)
    /\ session' = [google_import_token |-> FALSE, import_privacy |-> "absent",
                   uses |-> session.uses + 1]
    /\ UNCHANGED <<ldap, ldapUp, cache, jobs, runs, nextUuid, nReq, lastReq, burst, hist, view,
                   flt, app, config, db, req, peer>>

NextSession ==
    \/ AuthorizeGoogleImport
    \/ GoogleImportCallback
    \/ ImportStreamSession
    \/ ImportRecord
    \/ ImportFinish
    \/ LdapDown
    \/ LdapBack

SpecSession == Init /\ [][NextSession]_vars

(***************************************************************************)
(* The application under a fair scheduler: a due job is dispatched, a      *)
(* worker finishes what it started, and the interval keeps firing.         *)
(***************************************************************************)
SpecFair ==
    /\ Spec
    /\ WF_vars(SchedulerRunJob)
    /\ WF_vars(IntervalFire)
    /\ WF_vars(RefreshSearch)
    /\ WF_vars(RefreshSet)

(***************************************************************************)
(* Properties.                                                             *)
(***************************************************************************)
Pending(id) == {j \in jobs : j.id = id}
PendingOfKind(kind) == {j \in jobs : j.id[1] = kind}

C7_BurstCollapse ==
    \A k \in Kinds \ {"manual_refresh_import"} :
        (burst[k].calls >= 1 /\ burst[k].execs = 0) => Cardinality(PendingOfKind(k)) = 1

WriteRoutes == {"add_person", "edit_person", "delete_person", "toggle_contact_privacy"}

\* C6: a request to add_person, edit_person, delete_person or
\* toggle_contact_privacy schedules one refresh job when its directory
\* mutation succeeded and none when it failed.
C6_RefreshIffSuccess ==
    lastReq.route \in WriteRoutes => lastReq.nsched = (IF lastReq.ok THEN 1 ELSE 0)

\* A delete has failed and the store holds no job of its kind.
C6_Witness ==
    /\ lastReq.route = "delete_person"
    /\ ~lastReq.ok
    /\ lastReq.nsched = 0
    /\ PendingOfKind("manual_refresh_delete") = {}
    /\ burst["manual_refresh_add"].calls = 1

\* C3: whenever the value a reader obtains for "all_people" changes, the new
\* value is the whole people_list found by one Refresher run's search, or
\* the missing value; it is never part of a list or a blend of two lists.
C3_SnapshotAtomic ==
    [][CacheGet' # CacheGet =>
          \/ ~cache'.present
          \/ \E r \in Running : r.pc = "set" /\ cache'.present /\ cache'.val = r.people_list]_vars

\* Two Refresher runs hold different search results while a reader sees a
\* non-empty list.
C3_Witness ==
    /\ CacheGet # << >>
    /\ \E r1, r2 \in Running :
           r1.pc = "set" /\ r2.pc = "set" /\ r1.people_list # r2.people_list

\* C4 as stated: once a Refresher run whose search succeeded has stored its
\* result, every read returns the output of the last completed Refresher
\* run, and that output is a search result, never an empty or missing value
\* standing in for it.
C4_EmptyOnlyBeforeFirstRefresh ==
    hist.everOk => (cache.present /\ cache.val = hist.stored /\ hist.storedOk)

\* C4, amended: once a Refresher run has stored its result, every read
\* returns what the most recently completed Refresher run stored (the empty
\* list when that run's search failed), or the missing value once the entry
\* has timed out.
C4_LastStoredOrMissing ==
    cache.present => cache.val = hist.stored

\* After a successful refresh, a failed one has emptied the list although
\* the directory holds public contacts.
C4_Witness ==
    /\ hist.everOk
    /\ ~hist.storedOk
    /\ cache.present
    /\ cache.val = << >>
    /\ \E e \in ldap : e.dn[2] = ContactsDn

Fresh == cache.present /\ cache.val = search_ldap(ldap, TRUE, ContactsDn)

\* C5: when the last request was a successful write, no further write
\* follows and the directory stays reachable, the Snapshot comes to hold
\* the directory's public contacts and keeps holding them.
C5_EventualFreshness ==
    <>[](lastReq.ok /\ ldapUp) => <>[]Fresh

DnsOf(l) == {l[k].dn : k \in 1..Len(l)}
At(l, dn) == {k \in 1..Len(l) : l[k].dn = dn}

\* C2: every dn of the Snapshot or of the user's private search result is
\* once in the list _get_visible_contacts returns; for a dn in both, the
\* record returned is the Snapshot's and has no is_private marker.
C2_VisibilityPrecedence ==
    view.done =>
        /\ \A dn \in DnsOf(view.public) \cup DnsOf(view.private) :
               Cardinality(At(view.out, dn)) = 1
        /\ \A dn \in DnsOf(view.public) \cap DnsOf(view.private) :
               \A k \in At(view.out, dn), a \in At(view.public, dn) :
                   /\ "is_private" \notin DOMAIN view.out[k]
                   /\ view.out[k].cn = view.public[a].cn

\* A dn is public and private with different names, next to a dn that is
\* private only.
C2_Witness ==
    /\ view.done
    /\ \E dn \in DnsOf(view.public) \cap DnsOf(view.private) :
           \E a \in At(view.public, dn), b \in At(view.private, dn) :
               view.public[a].cn # view.private[b].cn
    /\ DnsOf(view.private) \ DnsOf(view.public) # {}

ImportJob == <<"manual_refresh_import", 0>>

\* C8: an import run schedules no refresh while it processes records; when
\* it has ended it has scheduled one refresh, id manual_refresh_import, if
\* it imported a record and none otherwise, and it made that call after the
\* last record's event and before the complete event.
C8_PostImportRefresh ==
    /\ imp.pc = "loop" => (imp.nsched = 0 /\ Pending(ImportJob) = {})
    /\ imp.pc = "done" =>
           IF imp.written # {}
           THEN /\ imp.nsched = 1
                /\ Cardinality(Pending(ImportJob)) = 1
                /\ imp.schedAt = Len(imp.connections)
                /\ Len(imp.events) = imp.schedAt + 1
                /\ imp.events[Len(imp.events)].status = "complete"
           ELSE imp.nsched = 0 /\ Pending(ImportJob) = {}

\* A run that imported one record and skipped another has ended.
C8_Witness ==
    /\ imp.pc = "done"
    /\ imp.nsched = 1
    /\ imp.imported_count = 1
    /\ imp.skipped_count = 1

Upper(str) ==
    CASE str = "Al" -> "AL"
      [] str = "al" -> "AL"
      [] str = "Bo" -> "BO"
      [] str = "bo" -> "BO"
      [] str = "x@y" -> "X@Y"
      [] str = "z@y" -> "Z@Y"
      [] OTHER -> str

SameIgnoringCase(a, b) == Upper(a) = Upper(b)

SkipMessages == {"Skipping duplicate", "Skipping contact with no name."}
Skipped(k) == imp.events[k].message \in SkipMessages
WrittenEntries == {e \in ldap : e.dn \in imp.written}

\* C9: in one import run, a record with a name whose non-empty e-mail
\* equals, ignoring case, that of an earlier named record that was added, is
\* not added and is counted as skipped; the entries one run writes have
\* pairwise different e-mails, ignoring case.
C9_DedupWithinBatch ==
    /\ \A a, b \in 1..imp.i :
           (/\ a < b
            /\ imp.connections[a].cn # "" /\ imp.connections[b].cn # ""
            /\ imp.connections[a].mail # ""
            /\ SameIgnoringCase(imp.connections[a].mail, imp.connections[b].mail)
            /\ imp.events[a].message = "Successfully imported")
           => (b \notin imp.addCalls /\ Skipped(b))
    /\ imp.skipped_count = Cardinality({k \in 1..imp.i : Skipped(k)})
    /\ \A e, f \in WrittenEntries :
           (e.mail # << >> /\ f.mail # << >> /\ SameIgnoringCase(e.mail[1], f.mail[1])) => e = f

\* The second record has another name than the first, which was added, and
\* the same e-mail in another case; it was skipped.
C9_Witness ==
    /\ imp.i >= 2
    /\ imp.events[1].message = "Successfully imported"
    /\ imp.connections[1].mail = "x@y"
    /\ imp.connections[2].mail = "X@Y"
    /\ ~SameIgnoringCase(imp.connections[1].cn, imp.connections[2].cn)
    /\ Skipped(2)

FirstValues(entries, attr) == {e[attr][1] : e \in {x \in entries : x[attr] # << >>}}
Matches(values, str) == str # "" /\ \E v \in values : SameIgnoringCase(v, str)
Range(l) == {l[k] : k \in 1..Len(l)}

\* C10 as stated: a named record whose name equals, ignoring case, the cn of
\* an entry that was in the destination subtree when the run preloaded its
\* index, or whose e-mail equals such an entry's mail, is not added and is
\* counted as skipped.
C10_DedupAgainstExisting ==
    \A k \in 1..imp.i :
        (/\ imp.connections[k].cn # ""
         /\ \/ Matches(FirstValues(imp.preDir, "cn"), imp.connections[k].cn)
            \/ Matches(FirstValues(imp.preDir, "mail"), imp.connections[k].mail))
        => (k \notin imp.addCalls /\ Skipped(k))

\* C10, amended: a named record whose name equals, ignoring case, the first
\* cn value of an entry that the run's preload search returned, or whose
\* e-mail equals the first mail value of such an entry, is not added and is
\* counted as skipped; a preload search that fails returns no entry.
C10_DedupAgainstPreloaded ==
    \A k \in 1..imp.i :
        (/\ imp.connections[k].cn # ""
         /\ \/ Matches(FirstValues(Range(imp.preIndex), "cn"), imp.connections[k].cn)
            \/ Matches(FirstValues(Range(imp.preIndex), "mail"), imp.connections[k].mail))
        => (/\ k \notin imp.addCalls
            /\ Skipped(k)
            /\ imp.skipped_count = Cardinality({n \in 1..imp.i : Skipped(n)}))

\* A record with the name of a preloaded entry, in another case, and with
\* another e-mail was skipped.
C10_Witness ==
    /\ imp.i >= 1
    /\ imp.preIndex # << >>
    /\ imp.connections[1].cn = "AL"
    /\ imp.connections[1].mail = "X@Y"
    /\ Matches(FirstValues(Range(imp.preIndex), "cn"), "AL")
    /\ ~Matches(FirstValues(Range(imp.preIndex), "mail"), "X@Y")
    /\ Skipped(1)

Total == Len(imp.connections)
NoDirectoryWrite == imp.addCalls = {} /\ imp.written = {}
NoRefresh == imp.nsched = 0 /\ Pending(ImportJob) = {}

\* C11: a finished import stream is one error event, or one complete event
\* for a source without records, or total progress events numbered 1 to
\* total, each with the same total, followed by one complete event; nothing
\* follows an error or complete event.
C11_EventGrammar ==
    /\ \A k \in 1..Len(imp.events) - 1 : imp.events[k].status = "progress"
    /\ \A k \in 1..Len(imp.events) :
           imp.events[k].status = "progress" =>
               imp.events[k].current = k /\ imp.events[k].total = Total
    /\ imp.pc = "loop" => Len(imp.events) = imp.i
    /\ imp.pc = "done" =>
           \/ Len(imp.events) = 1 /\ imp.events[1].status = "error"
           \/ Len(imp.events) = 1 /\ imp.events[1].status = "complete" /\ Total = 0
           \/ /\ Total >= 1
              /\ Len(imp.events) = Total + 1
              /\ imp.events[Total + 1].status = "complete"

\* A stream of two progress events and a complete event has ended.
C11_Witness ==
    /\ imp.pc = "done"
    /\ Len(imp.events) = 3
    /\ imp.events[2].current = 2
    /\ imp.events[3].status = "complete"

Nameless == {k \in 1..Total : imp.connections[k].cn = ""}
DocumentedSummary(added, skipped) ==
    "Import complete. Added " \o ToString(added) \o ", skipped " \o ToString(skipped) \o "."

\* C12: a record without a name is not added, gets one progress event and
\* counts as skipped; when all n - k named records of a run were added and
\* k records had no name, the complete event's message is
\* "Import complete. Added <n-k>, skipped <k>.".
C12_ImportSummary ==
    /\ \A k \in Nameless :
           k <= imp.i =>
               /\ k \notin imp.addCalls
               /\ imp.events[k].message = "Skipping contact with no name."
    /\ (/\ imp.pc = "done"
        /\ Total >= 1
        /\ \A k \in (1..Total) \ Nameless : imp.events[k].message = "Successfully imported")
       => /\ imp.skipped_count = Cardinality(Nameless)
          /\ imp.events[Total + 1].message
                 = DocumentedSummary(Total - Cardinality(Nameless), Cardinality(Nameless))

\* C13: an import started without a token emits one error event and does
\* not fetch from the source, search or add to the directory, or schedule
\* a refresh.
C13_NoToken ==
    (imp.pc # "idle" /\ ~imp.token) =>
        /\ imp.pc = "done"
        /\ Len(imp.events) = 1
        /\ imp.events[1].status = "error"
        /\ ~imp.fetched
        /\ ~imp.searched
        /\ NoDirectoryWrite
        /\ NoRefresh

\* An import without a token has ended while the directory holds entries.
C13_Witness ==
    imp.pc = "done" /\ ~imp.token /\ Len(imp.events) = 1 /\ ldap # {} /\ ldapUp

\* C14: when a page fetch fails, the import ends with one error event; it
\* schedules no refresh and issues no directory search or add.
C14_SourceFailure ==
    (imp.pc # "idle" /\ imp.token /\ imp.failing) =>
        /\ imp.pc = "done"
        /\ Len(imp.events) = 1
        /\ imp.events[1].status = "error"
        /\ ~imp.searched
        /\ NoDirectoryWrite
        /\ NoRefresh

\* An import whose source failed has ended while the directory holds entries.
C14_Witness ==
    imp.pc = "done" /\ imp.token /\ imp.failing /\ imp.fetched /\ ldap # {} /\ ldapUp

\* C15: a read made while the directory does not answer returns the cached
\* Snapshot's records, none of them tagged private (the empty list when the
\* Snapshot is empty or missing), and leaves the Snapshot as it was.
C15_SoftFailRead ==
    [][view' # view =>
          /\ cache' = cache
          /\ ~ldapUp => (view'.private = << >> /\ view'.out = CacheGet)]_vars

\* A read during an outage has returned a non-empty Snapshot, although the
\* user has a private contact.
C15_Witness ==
    /\ view.done
    /\ view.failed
    /\ view.out # << >>
    /\ \E e \in ldap : e.dn[2] = PrivateOu(1)

\* C16: a Refresher run whose search fails gets the empty list from the
\* search and stores it: after such a run the Snapshot is the empty list,
\* whatever it held before.
C16_FailedRefreshEmpties ==
    /\ \A r \in Running : (r.pc = "set" /\ ~r.found) => r.people_list = << >>
    /\ ~hist.storedOk => (hist.stored = << >> /\ (cache.present => cache.val = << >>))

\* A failed run has just replaced a Snapshot that an earlier run had filled.
C16_Witness ==
    /\ hist.everOk
    /\ ~hist.storedOk
    /\ cache = CacheSet(<< >>)
    /\ \E e \in ldap : e.dn[2] = ContactsDn

IntervalRegistered == \E j \in jobs : j.id = IntervalId

\* C17: the interval job stays registered whatever a run met, and when the
\* directory becomes reachable for good, the Snapshot holds the directory's
\* public contacts again and again.
C17_TimerSurvivesFailure ==
    []IntervalRegistered /\ (<>[]ldapUp => []<>Fresh)

\* After a failed run stored its result, the interval job has fired again
\* and holds the contacts it found.
C17_Witness ==
    /\ ~hist.storedOk
    /\ ldapUp
    /\ \E r \in Running :
           r.id = IntervalId /\ r.pc = "set" /\ r.found /\ r.people_list # << >>

PublicEntries == {e \in ldap : e.dn[2] = ContactsDn}

\* C18: the list a Refresher run gets from a reachable directory holds
\* exactly the entries under the contacts base, each once and with its
\* attribute values, and the run stores exactly this list: no record of
\* the previous Snapshot is kept.  Two runs over an unchanged directory
\* therefore store equal sets.
C18_RefreshResult ==
    [][/\ \A r \in BagToSet(runs') :
              (r.pc = "set" /\ r.found /\ CopiesIn(r, runs') > CopiesIn(r, runs))
              => /\ Range(r.people_list) = PublicEntries
                 /\ Len(r.people_list) = Cardinality(PublicEntries)
       /\ (cache' # cache /\ cache'.present)
              => \E r \in Running : r.pc = "set" /\ cache'.val = r.people_list]_vars

\* A run holds the list of a reachable directory, without an entry of the
\* present Snapshot that has left the contacts base.
C18_Witness ==
    /\ cache.present
    /\ \E r \in Running :
           /\ r.pc = "set"
           /\ r.found
           /\ \E k \in 1..Len(cache.val) :
                  cache.val[k] \notin Range(r.people_list) /\ cache.val[k] \notin PublicEntries

\* C20: every record of the Snapshot, and of a list a Refresher run is
\* about to store, is an immediate child of the contacts base.
C20_NoPrivateInSnapshot ==
    /\ \A k \in 1..Len(cache.val) : cache.val[k].dn[2] = ContactsDn
    /\ \A r \in Running : \A k \in 1..Len(r.people_list) : r.people_list[k].dn[2] = ContactsDn

\* The refresh scheduled by a move has stored its list while the directory
\* holds a private entry next to a public one.
C20_Witness ==
    /\ \E e \in ldap : e.dn[2] = PrivateOu(1)
    /\ burst["manual_refresh_move"].execs >= 1
    /\ Running = {}
    /\ hist.storedOk
    /\ cache.val # << >>

\* C19: with several person classes configured, the Refresher's search
\* returns every entry that has any of them.
C19_FilterIsOr ==
    flt.done =>
        flt.out = {e \in flt.dir :
                      \E k \in 1..Len(flt.person_classes) :
                          flt.person_classes[k] \in e.objectClass}

ForeignPrivate(u, dn) == \E a \in Users : a # u /\ dn[2] = PrivateOu(a)
PersonReads == {"person_detail", "person_map", "person_vcard"}

\* C21: no read made by a user, through the merged list or through a person
\* page, returns a record whose dn lies in another user's private subtree.
C21_PrivateOnlyOwner ==
    /\ view.done => \A k \in 1..Len(view.out) : ~ForeignPrivate(view.user, view.out[k].dn)
    /\ req.route \in PersonReads =>
           \A k \in 1..Len(req.out) : ~ForeignPrivate(req.user, req.out[k].dn)

\* C21, the list pages alone: the merged list holds no record of another
\* user's private subtree.
C21_MergedListOwnOnly ==
    view.done => \A k \in 1..Len(view.out) : ~ForeignPrivate(view.user, view.out[k].dn)

\* C22: a read searches the private subtree exactly when private contacts
\* are enabled and the template is set; otherwise it returns the Snapshot.
C22_PrivateSearchIffEnabled ==
    view.done =>
        /\ view.searched <=> (config.ENABLE_PRIVATE_CONTACTS /\ config.LDAP_PRIVATE_OU_TEMPLATE # "")
        /\ ~(config.ENABLE_PRIVATE_CONTACTS /\ config.LDAP_PRIVATE_OU_TEMPLATE # "")
               => view.out = view.public

BootPcs == {"refresh_search", "refresh_set"}

\* C23: while create_app runs the Refresher, no interval job is registered,
\* the scheduler is not started, no request has been served and no
\* scheduled run exists; the run stores its result once, then the interval
\* job is registered, then the scheduler is started.
C23_StartupOrdering ==
    /\ app.pc \in BootPcs =>
           (jobs = {} /\ ~app.started /\ nReq = 0 /\ Running = {} /\ lastReq = NoReq)
    /\ app.pc = "refresh_search" => ~cache.present
    /\ app.pc = "add_job" =>
           /\ cache.present /\ cache.val = app.people_list /\ hist.stored = app.people_list
           /\ jobs = {} /\ ~app.started /\ nReq = 0 /\ Running = {}
    /\ app.pc = "start" => (IntervalRegistered /\ ~app.started /\ nReq = 0 /\ Running = {})
    /\ (app.started \/ nReq > 0 \/ Running # {}) => app.pc \in {"serving", "exiting", "stopped"}

\* The scheduler has just been started: the startup run has stored what it
\* found in a directory that holds a contact, and the interval job waits.
C23_Witness ==
    /\ app.pc = "serving"
    /\ nReq = 0
    /\ Running = {}
    /\ cache.present
    /\ cache.val # << >>
    /\ IntervalRegistered

\* C24: when shutdown has returned the scheduler is stopped and no run is
\* in flight; from the moment the scheduler is stopped no Refresher run
\* starts, and after shutdown has returned the Snapshot is not written.
C24_Shutdown ==
    /\ [](app.pc = "stopped" => (~app.started /\ Running = {}))
    /\ [][~app.started => BagCardinality(runs') <= BagCardinality(runs)]_vars
    /\ [][app.pc = "stopped" => (cache' = cache /\ hist' = hist)]_vars

\* Shutdown has returned after a refresh stored its list; an on-demand job
\* that was never started and the interval job are left in the store.
C24_Witness ==
    /\ app.pc = "stopped"
    /\ \E j \in jobs : j.id # IntervalId
    /\ IntervalRegistered
    /\ hist.storedOk
    /\ cache.present
    /\ cache.fires = 0

\* C25: whatever on-demand refresh is scheduled, the store holds the
\* interval job, once and with the arguments it was registered with, and
\* every other job carries an on-demand id.
C25_IntervalJobKept ==
    /\ Cardinality(Pending(IntervalId)) = 1
    /\ \A j \in Pending(IntervalId) : j.tok = 0
    /\ \A j \in jobs : j.id # IntervalId => j.id[1] \in Kinds

\* A job scheduled with replace_existing and one scheduled without are
\* pending next to the interval job.
C25_Witness ==
    /\ Pending(<<"manual_refresh_add", 0>>) # {}
    /\ PendingOfKind("manual_refresh_move") # {}
    /\ Cardinality(Pending(IntervalId)) = 1

\* C26: a write request, a step of an import stream and a read leave the
\* "all_people" entry as it is; when the entry changes, a Refresher run has
\* replaced it by the whole list it found.
C26_OnlyRefresherWrites ==
    [][/\ (nReq' # nReq \/ lastReq' # lastReq \/ imp' # imp \/ view' # view \/ req' # req)
              => cache' = cache
       /\ cache' # cache
              => \E r \in Running :
                     r.pc = "set" /\ cache' = CacheSet(r.people_list) /\ runs' = Finish(r)]_vars

\* After a successful write and an imported record a user has read the
\* list: the Snapshot is still the list the last Refresher run stored, and
\* no longer what the directory holds.
C26_Witness ==
    /\ lastReq.ok
    /\ imp.imported_count >= 1
    /\ view.done
    /\ cache.present
    /\ cache.val = hist.stored
    /\ ~Fresh

\* C27: with the default CACHE_DEFAULT_TIMEOUT and CACHE_REFRESH_INTERVAL
\* the "all_people" entry outlasts the time to the next interval refresh,
\* the run of that refresh included: the entry is present in every state,
\* so no reader finds it missing.
C27_TimeoutOutlastsInterval == cache.present

(***************************************************************************)
(* Requests and what they may touch.  A step is a request when it writes   *)
(* the access log or spends a request of the session.                      *)
(***************************************************************************)
RequestStep == req' # req \/ nReq' # nReq

PersonRoutes ==
    {"person_detail", "person_map", "person_vcard", "edit_person", "delete_person",
     "toggle_contact_privacy"}
EditorRoutes ==
    {"add_person", "edit_person", "delete_person", "toggle_contact_privacy", "import_stream"}
AdminRoutes == {"admin_users", "admin_cache", "add_user", "delete_user", "set_roles"}

Malformed(r) ==
    \/ r.route = "add_person" /\ (r.cn = "" \/ config.LDAP_CONTACT_DN_TEMPLATE = "")
    \/ r.route \in PersonRoutes /\ ~r.decodable

\* C28: a request with malformed input -- an add without a cn or with no DN
\* template configured, a person route whose identifier does not decode --
\* calls no ldap_utils function, leaves the directory and the job store as
\* they were and schedules no refresh.
C28_MalformedRejectedEarly ==
    [][RequestStep /\ Malformed(req')
         => /\ req'.ops = << >>
            /\ req'.nsched = 0
            /\ ldap' = ldap
            /\ jobs' = jobs]_vars

\* An editor's add request with a cn was answered while no DN template is
\* configured.
C28_Witness ==
    /\ req.route = "add_person"
    /\ req.cn = "a"
    /\ req.status = 302
    /\ config.LDAP_CONTACT_DN_TEMPLATE = ""

Denied(r) ==
    LET who == current_user(r.user)
    IN \/ r.route \in AdminRoutes /\ ~who.is_admin
       \/ r.route \in EditorRoutes /\ (config.READONLY \/ ~(who.is_admin \/ who.is_editor))

RowIds(rows) == {r.id : r \in rows}
EntryDns(dir) == {e.dn : e \in dir}

\* C30: a row of an LDAP user appears in the user table only in a step that
\* adds the user's entry to the directory, and disappears only in a step
\* that deletes the user's entry from the directory; an add_user or
\* delete_user request whose directory call failed leaves the user table
\* and the directory as they were.
C30_LocalStoreFollowsDirectory ==
    [][/\ \A r \in db' : (r.auth_source = "ldap" /\ r.id \notin RowIds(db))
              => UserDn(r.username) \in EntryDns(ldap') \ EntryDns(ldap)
       /\ \A r \in db : (r.auth_source = "ldap" /\ r.id \notin RowIds(db'))
              => UserDn(r.username) \in EntryDns(ldap) \ EntryDns(ldap')
       /\ (RequestStep /\ req'.route \in {"add_user", "delete_user"}
             /\ req'.ops # << >> /\ ~req'.ok)
              => (db' = db /\ ldap' = ldap)]_vars

\* An LDAP user was added: the row and the directory entry are both there.
C30_Witness ==
    /\ req.route = "add_user"
    /\ req.ops = <<"add_ldap_user">>
    /\ req.ok
    /\ \E r \in db : r.username = "carol" /\ r.auth_source = "ldap"
    /\ UserDn("carol") \in EntryDns(ldap)

\* C31: a list read returns one record for each contact: no two records of
\* the list a user was given carry the same uid, also while the cached list
\* still has a contact under the path it was moved away from.
C31_MovedListedOnce ==
    view.done =>
        \A i, j \in 1..Len(view.out) : view.out[i].dn[1] = view.out[j].dn[1] => i = j

Imported(k) == imp.events[k].message = "Successfully imported"
Failed(k) == imp.events[k].message = "Failed to import"
\* The values of attr a duplicate test at record k may rest on: those the
\* preload search returned and those of the records added before k.
Known(attr, k) ==
    FirstValues(Range(imp.preIndex), attr)
        \cup {imp.connections[n][attr] : n \in {x \in 1..(k - 1) : Imported(x)}}

AddCalls == {k \in 1..Len(imp.ops) : imp.ops[k].fn = "add_ldap_entry"}
Destination == IF imp.privacy = "private" THEN PrivateOu(imp.user_id) ELSE ContactsDn
NonEmpty(attr) == \A n \in 1..Len(attr) : attr[n] # ""

\* C33: every add an import run issues names an entry directly under the
\* run's destination subtree -- the acting user's private subtree for a
\* private import, the contacts base otherwise -- with a uid as relative
\* name that no other add of the run and no entry of the directory has,
\* carries the acting user's id as owner and a cn, and passes no attribute
\* with an empty value; a private import calls ensure_ou_exists for the
\* private subtree first, before the preload search and every add.
C33_ImportAddShape ==
    /\ \A k \in AddCalls :
           LET c == imp.ops[k]
           IN /\ c.dn[2] = Destination
              /\ c.dn[1][1] = "uid"
              /\ \A n \in AddCalls : imp.ops[n].dn[1] = c.dn[1] => n = k
              /\ \A e \in ldap : e.dn[1] = c.dn[1] => e.dn = c.dn /\ c.dn \in imp.written
              /\ c.attributes.owner = imp.user_id
              /\ c.attributes.cn # << >>
              /\ NonEmpty(c.attributes.cn) /\ NonEmpty(c.attributes.mail)
    /\ (imp.searched /\ imp.privacy = "private")
           => /\ imp.ops[1] = LdapCall("ensure_ou_exists", PrivateOu(imp.user_id), NoAttributes)
              /\ imp.ops[2].fn = "search_ldap"
              /\ \A k \in AddCalls : k > 2
    /\ (imp.searched /\ imp.privacy # "private")
           => /\ imp.ops[1].fn = "search_ldap"
              /\ \A k \in 1..Len(imp.ops) : imp.ops[k].fn # "ensure_ou_exists"

\* A private import added a record without an e-mail address and issued a
\* second add.
C33_Witness ==
    /\ imp.privacy = "private"
    /\ Cardinality(AddCalls) = 2
    /\ \E k \in AddCalls : imp.ops[k].attributes.mail = << >> /\ imp.ops[k].dn \in imp.written

\* C34 as stated: once the client has gone away after the j-th event, the
\* run issues no add for a later record and emits no further event, and
\* what it added stays in the directory.
C34_NoAddAfterClientGone ==
    imp.gone =>
        /\ \A k \in imp.addCalls : k <= imp.received
        /\ Len(imp.events) = imp.received
        /\ imp.written \subseteq {e.dn : e \in ldap}

\* C34, amended: once the generator has been closed after its j-th yield,
\* the run issues no add for a later record, emits no further event and
\* schedules nothing, and closing removes nothing: every entry the run
\* added is still in the directory.
C34_NoAddAfterClose ==
    [][imp'.pc = "closed"
         => /\ imp'.i = imp.i
            /\ imp'.events = imp.events
            /\ imp'.ops = imp.ops
            /\ imp'.addCalls = imp.addCalls
            /\ ldap' = ldap
            /\ jobs' = jobs
            /\ imp.written \subseteq {e.dn : e \in ldap'}]_vars

\* A stream of two records was closed after the first, which it had added.
C34_Witness ==
    /\ imp.pc = "closed"
    /\ imp.i = 1
    /\ Len(imp.connections) = 2
    /\ Imported(1)
    /\ imp.written \subseteq {e.dn : e \in ldap}
    /\ imp.written # {}

\* C35: an import_stream request leaves neither the access token nor the
\* privacy flag in the session and writes nothing to the user table; a
\* request without a token adds nothing to the directory and schedules
\* nothing; and the stream of a second or later request since the last
\* authorization callback consists of one error event and has made no
\* directory add.
C35_TokenConsumed ==
    /\ [](session.uses >= 2
            => /\ imp.pc = "done"
               /\ ~imp.token
               /\ Len(imp.events) = 1
               /\ imp.events[1].status = "error"
               /\ NoDirectoryWrite)
    /\ [][session'.uses = session.uses + 1
            => /\ ~session'.google_import_token
               /\ session'.import_privacy = "absent"
               /\ db' = db
               /\ ~session.google_import_token => (ldap' = ldap /\ jobs' = jobs)]_vars

\* After a private import that added a record, import_stream was requested
\* again without a new callback.
C35_Witness ==
    /\ session.uses = 2
    /\ imp.pc = "done"
    /\ ~imp.token
    /\ \E e \in ldap : e.dn = <<<<"uid", "u1">>, PrivateOu(1)>>

\* No refresh is running or waiting to run.
RefreshesFinished == runs = EmptyBag /\ \A j \in jobs : j.id = IntervalId

\* C36: while contacts are only added, no replacement of the Snapshot puts
\* back the result of a search that started before an add whose result the
\* Snapshot already holds (the stored list never gets shorter); and when
\* all refreshes have finished the Snapshot equals the directory's public
\* contents.
C36_FreshnessMonotone ==
    /\ [][(cache.present /\ hist.storedOk /\ cache'.present /\ hist'.storedOk)
            => Len(cache'.val) >= Len(cache.val)]_vars
    /\ []((RefreshesFinished /\ cache.present /\ hist.storedOk)
            => cache.val = search_ldap(ldap, TRUE, ContactsDn))

\* The entries the two import runs wrote and that are in the directory.
ImportedEntries == {e \in ldap : e.dn \in imp.written \cup peer.written}

SameKey(e, f, attr) ==
    e[attr] # << >> /\ f[attr] # << >> /\ SameIgnoringCase(e[attr][1], f[attr][1])

\* C37: when two import runs have finished, no two entries they wrote into
\* the same subtree have the same e-mail or the same name, ignoring case.
C37_NoDuplicatesAcrossImports ==
    (imp.pc = "done" /\ peer.pc = "done")
        => \A e, f \in ImportedEntries :
               (e # f /\ e.dn[2] = f.dn[2]) => (~SameKey(e, f, "mail") /\ ~SameKey(e, f, "cn"))

\* The entries in the private subtrees of the users other than u.
PrivateOfOthers(u) == {e \in ldap : \E a \in Users \ {u} : e.dn[2] = PrivateOu(a)}

\* C38: an edit_person, delete_person or toggle_contact_privacy request of
\* user B leaves every entry in another user's private subtree as it was,
\* and a toggle_contact_privacy request of B moves an entry only from the
\* contacts base to B's private subtree or back.
C38_WritesRespectOwnership ==
    [][(RequestStep
        /\ req'.route \in {"edit_person", "delete_person", "toggle_contact_privacy"})
        => /\ \A e \in PrivateOfOthers(req'.user) : e \in ldap'
           /\ req'.route = "toggle_contact_privacy"
                => \A e \in ldap \ ldap', f \in ldap' \ ldap :
                       {e.dn[2], f.dn[2]} = {ContactsDn, PrivateOu(req'.user)}]_vars

EntryDnsOf(dir) == {e.dn : e \in dir}

\* C39: a delete_person request whose delete_ldap_contact returns True has
\* removed one contact, and no entry still names that contact's dn as its
\* manager; one whose delete_ldap_contact returns False has left the
\* directory as it was.
C39_DeleteAllOrNothing ==
    [][(nReq' # nReq /\ lastReq'.route = "delete_person")
        => IF lastReq'.ok
           THEN \E dn \in EntryDnsOf(ldap) :
                    /\ EntryDnsOf(ldap') = EntryDnsOf(ldap) \ {dn}
                    /\ \A e \in ldap' : e.manager # <<dn>>
           ELSE ldap' = ldap]_vars

\* C40: whatever delete_user and set_roles requests the administrators
\* make, the user table holds exactly one row with id 1, and it is the
\* primary admin's row with its is_admin and is_editor flags as they were
\* at the start.
C40_PrimaryAdminProtected ==
    {r \in db : r.id = 1} = {User(1, "admin", "a@x", "local", TRUE, TRUE)}

\* An administrator's set_roles request for user 1 has been turned away
\* with a redirect.
C40_Witness ==
    /\ req.route = "set_roles"
    /\ req.status = 302
    /\ ~req.ok
    /\ admin_required(req.user) = 200

====
